---- MODULE Spec2Model ----
(***************************************************************************)
(* Model of the stock-advisor signal engine and backtester.                *)
(*                                                                         *)
(*   - Backtester._simulate_portfolio / _calculate_metrics (src/backtest.py)*)
(*     as the state machine SpecSim: one step per bar of the cash/holdings *)
(*     loop, then one step for the metrics.                                *)
(*   - Strategy.can_signal / update_last_signal (src/app/strategy/base.py) *)
(*     and the generate_signals loops of the three strategies as the state *)
(*     machine SpecStrategy: one step per row of the bar series.           *)
(*   - generate_signals as one call on a stored bar series, repeated by    *)
(*     its caller (src/advisor.py process_ticker), as SpecRerun.           *)
(*   - one pass of a generate_signals loop over a prior and a current row, *)
(*     with the strategies' thresholds as parameters, as SpecRules.        *)
(*   - Backtester.run (src/backtest.py): the signals of a strategy written *)
(*     to the bars of the frame, then the simulation, as SpecRun.          *)
(*   - the moving averages of MACrossoverStrategy computed from a series   *)
(*     of closes (src/app/indicators/tech.py), as SpecSeries.              *)
(*   - Portfolio.add_position / close_position / update_position over the  *)
(*     two tables of the database (src/app/portfolio/portfolio.py), as     *)
(*     SpecPortfolio.                                                      *)
(*   - the scheduler's job thread and the main thread of run_scheduler     *)
(*     (src/advisor.py) on their way through process_ticker, as SpecAdvisor.*)
(*   - one Strategy instance called in turn on the series of two tickers,  *)
(*     as SpecCooldown.                                                    *)
(*                                                                         *)
(* Money amounts are exact rationals <<num, den>> (den > 0, lowest terms): *)
(* the arithmetic of the simulation is modelled over the rationals.        *)
(* Every float of the program is such a rational, or NaN.  Timestamps are *)
(* whole seconds.                                                          *)
(***************************************************************************)
EXTENDS Integers, Sequences, FiniteSets, TLC

VARIABLES
    \* ---- Backtester (src/backtest.py)
    bt,                 \* the Backtester: [initial_capital, commission]
    portfolio,          \* the simulation frame: a record of columns
    i,                  \* loop index of _simulate_portfolio
    current_cash,       \* local of _simulate_portfolio
    current_position,   \* local of _simulate_portfolio
    metrics,            \* result of _calculate_metrics
    pc,                 \* position of the backtest: idle, loop, simulated, done
    \* ---- Strategy (src/app/strategy/*.py)
    TICKERS,            \* the tickers the advisor feeds to the strategy
    strategy,           \* the Strategy instance's configuration
    last_signals,       \* Strategy.last_signals: ticker -> Signal (or None)
    call,               \* the running generate_signals call (its locals)
    signals,            \* the list generate_signals is building / has returned
    \* ---- the callers of generate_signals (src/advisor.py, src/backtest.py)
    bars,               \* the bar series held for the tickers, in time order
    returned,           \* the calls made so far: their bars and returned lists
    run,                \* Backtester.run: its position, time column and result
    frames,             \* the DataFrame objects of a run; the first is the caller's
    \* ---- Portfolio (src/app/portfolio/portfolio.py)
    db,                 \* the portfolio database: its two tables and id counters
    op,                 \* the last call of a Portfolio method and what it returned
    \* ---- the advisor's threads (src/advisor.py run_scheduler)
    advisor             \* the scheduler, and where the main thread and the job are

simVars == <<bt, portfolio, i, current_cash, current_position, metrics, pc>>
stratVars == <<TICKERS, strategy, last_signals, call, signals>>
callerVars == <<bars, returned, run, frames, db, op, advisor>>
vars == <<bt, portfolio, i, current_cash, current_position, metrics, pc,
          TICKERS, strategy, last_signals, call, signals, bars, returned,
          run, frames, db, op, advisor>>

NaN == <<0, 0>>          \* a float that is not a number
None == <<>>            \* Python's None, where the other values are tuples
IsNaN(x) == x = NaN

(***************************************************************************)
(* Bounds of the model.                                                    *)
(***************************************************************************)
MaxBars == 4            \* longest bar series given to the simulation

(***************************************************************************)
(* Exact rational arithmetic.                                              *)
(***************************************************************************)
Abs(x) == IF x < 0 THEN -x ELSE x

RECURSIVE Gcd(_, _)
Gcd(a, b) == IF b = 0 THEN a ELSE Gcd(b, a % b)

RNorm(n, d) ==
    LET g == Gcd(Abs(n), Abs(d))
        s == IF d < 0 THEN -1 ELSE 1
    IN  <<(s * n) \div g, (s * d) \div g>>

RInt(n) == <<n, 1>>
RZero == RInt(0)
ROne == RInt(1)

RAdd(a, b) == RNorm(a[1] * b[2] + b[1] * a[2], a[2] * b[2])
RSub(a, b) == RNorm(a[1] * b[2] - b[1] * a[2], a[2] * b[2])
RMul(a, b) ==
    LET g1 == Gcd(Abs(a[1]), b[2])
        g2 == Gcd(Abs(b[1]), a[2])
    IN  RNorm((a[1] \div g1) * (b[1] \div g2), (a[2] \div g2) * (b[2] \div g1))
RDiv(a, b) == RMul(a, IF b[1] < 0 THEN <<-b[2], -b[1]>> ELSE <<b[2], b[1]>>)
\* Comparisons: every comparison with NaN is false.
RLt(a, b) ==
    /\ ~IsNaN(a) /\ ~IsNaN(b)
    /\ LET g == Gcd(a[2], b[2])
       IN  a[1] * (b[2] \div g) < b[1] * (a[2] \div g)
RLe(a, b) == ~IsNaN(a) /\ ~IsNaN(b) /\ ~RLt(b, a)
RGt(a, b) == RLt(b, a)
RGe(a, b) == RLe(b, a)
RMin(a, b) == IF RLt(b, a) THEN b ELSE a
RMax(a, b) == IF RLt(a, b) THEN b ELSE a


(***************************************************************************)
(* Backtester: src/backtest.py                                             *)
(***************************************************************************)
InitialCapitals == {RInt(10000)}
Commissions == {RZero, <<1, 4>>}
Prices == {RInt(100), RInt(110)}
SignalValues == {NaN, RInt(1), RInt(-1)}

\* Column access with the code's 0-based row labels.
At(col, k) == col[k + 1]
Put(col, k, v) == [col EXCEPT ![k + 1] = v]

\* portfolio['signal'].fillna(0)
FillNa0(x) == IF IsNaN(x) THEN RZero ELSE x

\* .cumsum() of the filled signal column
RECURSIVE CumSum(_, _)
CumSum(col, k) ==
    IF k = 0 THEN FillNa0(At(col, 0))
    ELSE RAdd(CumSum(col, k - 1), FillNa0(At(col, k)))

\* lambda x: max(min(x, 1), 0)
Clamp01(x) == RMax(RMin(x, ROne), RZero)

\* portfolio['position']: clamp of the running sum of the signal column
PositionColumn(sig) == [k \in 1..Len(sig) |-> Clamp01(CumSum(sig, k - 1))]

TotalCashOnly(cash, holdings) == cash

\* portfolio.loc[i, 'total'] = cash + holdings
Total(cash, holdings) == RAdd(cash, holdings)

\* shares * price of a BUY: all cash at price * (1 + commission)
BuyHoldings(cash, price, commission) ==
    RMul(RDiv(RDiv(cash, price), RAdd(ROne, commission)), price)

\* cash of a SELL: the previous bar's shares at price * (1 - commission)
SellCashOfHoldings(prev_holdings, prev_price, price, commission) ==
    RMul(RMul(prev_holdings, price), RSub(ROne, commission))

SellCash(prev_holdings, prev_price, price, commission) ==
    RMul(RMul(RDiv(prev_holdings, prev_price), price), RSub(ROne, commission))

RevalueStale(prev_holdings, prev_price, price) == prev_holdings

\* holdings of a bar without a trade, while long
Revalue(prev_holdings, prev_price, price) ==
    RMul(prev_holdings, RDiv(price, prev_price))

\* Which branch of the loop body row k takes.
Branch(p, k, position) ==
    IF At(p.signal, k) = RInt(1) /\ position = 0 THEN "BUY"
    ELSE IF At(p.signal, k) = RInt(-1) /\ position = 1 THEN "SELL"
    ELSE "NONE"

\* The frame after the body of the loop for row k (cash and position are
\* the locals current_cash and current_position before the row).
RowFrame(p, k, cash, position, commission) ==
    LET br == Branch(p, k, position)
        price == At(p.price, k)
        q == CASE br = "BUY" ->
                    [p EXCEPT !.holdings = Put(@, k, BuyHoldings(cash, price, commission)),
                              !.cash = Put(@, k, RZero)]
               [] br = "SELL" ->
                    [p EXCEPT !.holdings = Put(@, k, RZero),
                              !.cash = Put(@, k,
                                  SellCash(At(p.holdings, k - 1), At(p.price, k - 1),
                                           price, commission))]
               [] OTHER ->
                    IF k > 0
                    THEN [p EXCEPT !.cash = Put(@, k, At(p.cash, k - 1)),
                                   !.holdings = Put(@, k,
                                       IF position = 1
                                       THEN Revalue(At(p.holdings, k - 1),
                                                    At(p.price, k - 1), price)
                                       ELSE RZero)]
                    ELSE p
    IN  [q EXCEPT !.total = Put(@, k, Total(At(q.cash, k), At(q.holdings, k)))]

\* portfolio['total'].pct_change()
PctChange(total) ==
    [k \in 1..Len(total) |->
        IF k = 1 THEN NaN ELSE RSub(RDiv(total[k], total[k - 1]), ROne)]

\* No call of Backtester.run so far
NoRun == [phase |-> "off"]
\* No portfolio database, no call of a Portfolio method
NoDb == [positions |-> {}, transactions |-> <<>>, positions_seq |-> 0,
         transactions_seq |-> 0]
NoOp == [name |-> "none"]
NoThread == [at |-> "off", k |-> 0]
NoAdvisor == [scheduler |-> "off", main |-> NoThread, job |-> NoThread, fired |-> 0]

NoPortfolio == [price |-> <<>>, signal |-> <<>>, position |-> <<>>, cash |-> <<>>,
                holdings |-> <<>>, total |-> <<>>, daily_return |-> <<>>]

\* _simulate_portfolio, up to the loop: the frame with its default columns.
\* A Backtester runs one simulation (backtest.py:460-461, 522-523); nothing
\* of a run outlives it.
SimulateBegin ==
    /\ pc = "idle"
    /\ \E n \in 1..MaxBars :
         \E prices \in [1..n -> Prices], sig \in [1..n -> SignalValues] :
            portfolio' = [price |-> prices, signal |-> sig,
                          position |-> PositionColumn(sig),
                          cash |-> [k \in 1..n |-> bt.initial_capital],
                          holdings |-> [k \in 1..n |-> RZero],
                          total |-> [k \in 1..n |-> bt.initial_capital],
                          daily_return |-> <<>>]
    /\ current_cash' = bt.initial_capital
    /\ current_position' = 0
    /\ i' = 0
    /\ metrics' = None
    /\ pc' = "loop"
    /\ UNCHANGED <<bt, stratVars, callerVars>>

\* One iteration of "for i in range(len(portfolio))".
SimulateRow ==
    /\ pc = "loop"
    /\ i < Len(portfolio.price)
    /\ LET br == Branch(portfolio, i, current_position)
            q == RowFrame(portfolio, i, current_cash, current_position, bt.commission)
       IN  /\ portfolio' = q
           /\ current_position' = CASE br = "BUY" -> 1 [] br = "SELL" -> 0
                                     [] OTHER -> current_position
           /\ current_cash' = CASE br = "BUY" -> RZero [] br = "SELL" -> At(q.cash, i)
                                 [] OTHER -> current_cash
    /\ i' = i + 1
    /\ UNCHANGED <<bt, metrics, pc, stratVars, callerVars>>

\* The loop is over: daily returns, and the frame is returned.
SimulateReturn ==
    /\ pc = "loop"
    /\ i = Len(portfolio.price)
    /\ portfolio' = [portfolio EXCEPT !.daily_return = PctChange(portfolio.total)]
    /\ pc' = "simulated"
    /\ UNCHANGED <<bt, i, current_cash, current_position, metrics, stratVars, callerVars>>

\* portfolio['total'].cummax()
RECURSIVE CumMax(_, _)
CumMax(total, k) ==
    IF k = 0 THEN At(total, 0) ELSE RMax(CumMax(total, k - 1), At(total, k))

\* (total - peak) / peak, per row
Drawdown(total, k) == RDiv(RSub(At(total, k), CumMax(total, k)), CumMax(total, k))

\* portfolio['drawdown'].min()
RECURSIVE MinDrawdown(_, _)
MinDrawdown(total, k) ==
    IF k = 0 THEN Drawdown(total, 0)
    ELSE RMin(MinDrawdown(total, k - 1), Drawdown(total, k))

\* portfolio['position'].diff() == 1 / == -1: the diff of row 0 is NaN
TradeStart(position, k) ==
    k > 0 /\ RSub(At(position, k), At(position, k - 1)) = RInt(1)
TradeEnd(position, k) ==
    k > 0 /\ RSub(At(position, k), At(position, k - 1)) = RInt(-1)

\* The trade loop over rows k..n-1, with the local open_price: the list of
\* trade returns it appends.
RECURSIVE Trades(_, _, _)
Trades(p, k, open_price) ==
    IF k >= Len(p.price) THEN <<>>
    ELSE IF TradeStart(p.position, k) THEN Trades(p, k + 1, At(p.price, k))
    ELSE IF TradeEnd(p.position, k) /\ open_price # None
         THEN <<RSub(RDiv(At(p.price, k), open_price), ROne)>> \o Trades(p, k + 1, None)
    ELSE Trades(p, k + 1, open_price)

Inf == <<1, 0>>          \* float('inf')

RECURSIVE RSum(_)
RSum(seq) == IF seq = <<>> THEN RZero ELSE RAdd(Head(seq), RSum(Tail(seq)))

Winning(trades) == SelectSeq(trades, LAMBDA t : RLt(RZero, t))
Losing(trades) == SelectSeq(trades, LAMBDA t : RLt(t, RZero))

\* _calculate_metrics (CAGR, volatility and the Sharpe ratio, which need
\* roots, are left out of the record).
Metrics(p, initial_capital) ==
    LET n == Len(p.price)
        final_value == At(p.total, n - 1)
        trades == Trades(p, 0, None)
        gross_profit == RSum(Winning(trades))
        gross_loss == RSum(Losing(trades))
    IN  [initial_value |-> initial_capital,
         final_value |-> final_value,
         total_return |-> RSub(RDiv(final_value, initial_capital), ROne),
         max_drawdown |-> MinDrawdown(p.total, n - 1),
         win_rate |-> IF trades # <<>>
                      THEN RNorm(Len(Winning(trades)), Len(trades)) ELSE RZero,
         profit_factor |-> IF trades # <<>>
                           THEN (IF RLt(gross_loss, RZero)
                                 THEN RDiv(gross_profit, RSub(RZero, gross_loss))
                                 ELSE Inf)
                           ELSE RZero,
         trade_returns |-> trades,
         trades |-> Len(trades)]

CalculateMetrics ==
    /\ pc = "simulated"
    /\ metrics' = Metrics(portfolio, bt.initial_capital)
    /\ pc' = "done"
    /\ UNCHANGED <<bt, portfolio, i, current_cash, current_position, stratVars, callerVars>>


(***************************************************************************)
(* Strategy base class: src/app/strategy/base.py                           *)
(***************************************************************************)
SecondsPerMinute == 60
CooldownMinutes == 30       \* cooldown_minutes, the constructors' default

\* (timestamp - last_timestamp).total_seconds() / 60
MinutesDiff(timestamp, last_timestamp) ==
    RNorm(timestamp - last_timestamp, SecondsPerMinute)

CanSignalAlways(ls, ticker, timestamp, cooldown_minutes) == TRUE

CanSignalStrict(ls, ticker, timestamp, cooldown_minutes) ==
    IF ticker \notin DOMAIN ls THEN TRUE
    ELSE RGt(MinutesDiff(timestamp, ls[ticker].timestamp), RInt(cooldown_minutes))

\* Strategy.can_signal over the dictionary ls = self.last_signals
CanSignal(ls, ticker, timestamp, cooldown_minutes) ==
    IF ticker \notin DOMAIN ls THEN TRUE
    ELSE RGe(MinutesDiff(timestamp, ls[ticker].timestamp), RInt(cooldown_minutes))

UpdateLastSignalOfAll(ls, signal) ==
    [t \in DOMAIN ls \cup {signal.ticker} |-> signal]

\* Strategy.update_last_signal: self.last_signals[signal.ticker] = signal
UpdateLastSignal(ls, signal) ==
    [t \in DOMAIN ls \cup {signal.ticker} |->
        IF t = signal.ticker THEN signal ELSE ls[t]]

\* Signal(...): the dataclass, without its metadata dictionary
Signal(ticker, action, strength, reason, timestamp, price) ==
    [ticker |-> ticker, action |-> action, strength |-> strength,
     reason |-> reason, timestamp |-> timestamp, price |-> price]

\* What one pass of a signal loop did: the branch it took and the Signal
\* it appended and recorded, if any.
Skip(why) == [outcome |-> why, emit |-> <<>>]
Emit(sig) == [outcome |-> "emit", emit |-> <<sig>>]

(***************************************************************************)
(* MA Crossover: src/app/strategy/ma_crossover.py                          *)
(***************************************************************************)
SlowMa == 2                 \* slow_ma: rows before this index are skipped
RsiOverbought == 70
RsiOversold == 30

GoldenCrossOrTouch(prev, row) ==
    RLe(prev.fast_ma, prev.slow_ma) /\ RGt(row.fast_ma, row.slow_ma)

\* df['golden_cross'] / df['death_cross'] at a row; prev is the row before
\* (shift(1): all NaN before the first row)
GoldenCross(prev, row) ==
    RLt(prev.fast_ma, prev.slow_ma) /\ RGt(row.fast_ma, row.slow_ma)

DeathCrossBelowOnly(prev, row) == RLt(row.fast_ma, row.slow_ma)

DeathCross(prev, row) ==
    RGt(prev.fast_ma, prev.slow_ma) /\ RLt(row.fast_ma, row.slow_ma)

\* The body of "for idx, row in df.iterrows()" of MACrossoverStrategy
MARow(s, ls, prev, row, idx) ==
    IF IsNaN(row.fast_ma) \/ IsNaN(row.slow_ma) \/ IsNaN(row.rsi) THEN Skip("nan")
    ELSE IF idx < s.slow_ma THEN Skip("early")
    ELSE IF ~CanSignal(ls, row.ticker, row.Datetime, s.cooldown_minutes)
         THEN Skip("cooldown")
    ELSE IF GoldenCross(prev, row)
         THEN IF RLt(row.rsi, RInt(s.rsi_overbought))
              THEN Emit(Signal(row.ticker, "BUY", "STRONG", "Golden Cross",
                               row.Datetime, row.Close))
              ELSE Skip("filtered")
    ELSE IF DeathCross(prev, row)
         THEN IF RGt(row.rsi, RInt(s.rsi_oversold))
              THEN Emit(Signal(row.ticker, "SELL", "STRONG", "Death Cross",
                               row.Datetime, row.Close))
              ELSE Skip("filtered")
    ELSE Skip("none")

(***************************************************************************)
(* Bollinger Bands: src/app/strategy/bollinger_bands.py                    *)
(***************************************************************************)
BbLength == 2               \* bb_length: rows before this index are skipped
StrongBuyRsi == 20
StrongSellRsi == 80
RsiMidline == 50

\* The conditions of the mean-reversion rules at a row
MeanReversionBuyBelowBand(s, row) ==
    RLt(row.Close, row.bb_lower) /\ RLe(row.rsi, RInt(s.rsi_oversold))

MeanReversionBuy(s, row) ==
    RLe(row.Close, row.bb_lower) /\ RLe(row.rsi, RInt(s.rsi_oversold))
MeanReversionSellRsiFlipped(s, row) ==
    RGe(row.Close, row.bb_upper) /\ RLe(row.rsi, RInt(s.rsi_overbought))

MeanReversionSell(s, row) ==
    RGe(row.Close, row.bb_upper) /\ RGe(row.rsi, RInt(s.rsi_overbought))

\* The conditions of the breakout rules; prev is prev_row
BreakoutBuyAnyRsi(s, prev, row) ==
    /\ RLt(prev.Close, prev.bb_middle) /\ RGt(row.Close, row.bb_middle)
    /\ RLt(row.rsi, RInt(s.rsi_overbought))

BreakoutBuy(s, prev, row) ==
    /\ RLt(prev.Close, prev.bb_middle) /\ RGt(row.Close, row.bb_middle)
    /\ RGt(row.rsi, RInt(RsiMidline)) /\ RLt(row.rsi, RInt(s.rsi_overbought))
BreakoutSell(s, prev, row) ==
    /\ RGt(prev.Close, prev.bb_middle) /\ RLt(row.Close, row.bb_middle)
    /\ RLt(row.rsi, RInt(RsiMidline)) /\ RGt(row.rsi, RInt(s.rsi_oversold))

\* The body of the loop of BBandsStrategy, both modes
BBRow(s, ls, prev, row, idx) ==
    IF IsNaN(row.bb_lower) \/ IsNaN(row.bb_upper) \/ IsNaN(row.rsi) THEN Skip("nan")
    ELSE IF idx < BbLength THEN Skip("early")
    ELSE IF ~CanSignal(ls, row.ticker, row.Datetime, s.cooldown_minutes)
         THEN Skip("cooldown")
    ELSE IF s.mean_reversion
    THEN IF MeanReversionBuy(s, row)
         THEN Emit(Signal(row.ticker, "BUY",
                          IF RLt(row.rsi, RInt(StrongBuyRsi)) THEN "STRONG" ELSE "MODERATE",
                          "Price at/below lower BBand", row.Datetime, row.Close))
         ELSE IF MeanReversionSell(s, row)
         THEN Emit(Signal(row.ticker, "SELL",
                          IF RGt(row.rsi, RInt(StrongSellRsi)) THEN "STRONG" ELSE "MODERATE",
                          "Price at/above upper BBand", row.Datetime, row.Close))
         ELSE Skip("none")
    ELSE IF BreakoutBuy(s, prev, row)
         THEN Emit(Signal(row.ticker, "BUY", "MODERATE",
                          "Upward breakout of middle BBand", row.Datetime, row.Close))
         ELSE IF BreakoutSell(s, prev, row)
         THEN Emit(Signal(row.ticker, "SELL", "MODERATE",
                          "Downward breakout of middle BBand", row.Datetime, row.Close))
         ELSE Skip("none")

(***************************************************************************)
(* MACD + Stochastic: src/app/strategy/macd_stochastic.py                  *)
(***************************************************************************)
MacdSlow == 2               \* slow
StochK == 1                 \* stoch_k
StochD == 1                 \* stoch_d
StochOverbought == 80
StochOversold == 20
StochMidline == 50
SmallDataset == 100

MacdCrossAbove(prev, row) ==
    RLt(prev.macd, prev.macd_signal) /\ RGt(row.macd, row.macd_signal)
MacdCrossBelow(prev, row) ==
    RGt(prev.macd, prev.macd_signal) /\ RLt(row.macd, row.macd_signal)
StochCrossAbove(prev, row) ==
    RLt(prev.stoch_k, prev.stoch_d) /\ RGt(row.stoch_k, row.stoch_d)
StochCrossBelow(prev, row) ==
    RGt(prev.stoch_k, prev.stoch_d) /\ RLt(row.stoch_k, row.stoch_d)

MacdRowIsNaN(row) ==
    IsNaN(row.macd) \/ IsNaN(row.macd_signal) \/ IsNaN(row.stoch_k) \/ IsNaN(row.stoch_d)

RECURSIVE MinClose(_)
MinClose(rows) ==
    IF Len(rows) = 1 THEN rows[1].Close
    ELSE RMin(rows[1].Close, MinClose(Tail(rows)))
RECURSIVE MaxClose(_)
MaxClose(rows) ==
    IF Len(rows) = 1 THEN rows[1].Close
    ELSE RMax(rows[1].Close, MaxClose(Tail(rows)))

\* The initial position of a small dataset: rows is df[:valid_idx + 1], its
\* last row the first one with valid indicators.  The Signal is appended
\* to the list only: can_signal is not asked, update_last_signal not called.
InitialSignal(rows) ==
    LET row == rows[Len(rows)]
        price == row.Close
    IN  IF RLt(RSub(price, MinClose(rows)), RSub(MaxClose(rows), price))
        THEN Signal(row.ticker, "BUY", "MODERATE", "Initial position: near recent low",
                    row.Datetime, price)
        ELSE Signal(row.ticker, "SELL", "MODERATE", "Initial position: near recent high",
                    row.Datetime, price)

\* The conditions of the crossover rules and of the rules for small datasets
MacdBuy(prev, row) ==
    MacdCrossAbove(prev, row) /\ RLt(row.stoch_k, RInt(StochMidline))
MacdSell(prev, row) ==
    MacdCrossBelow(prev, row) /\ RGt(row.stoch_k, RInt(StochMidline))
RisingMacdBuy(prev, row) ==
    /\ RGt(row.macd, prev.macd)
    /\ RLt(row.stoch_k, RInt(StochMidline)) /\ RGt(row.stoch_k, row.stoch_d)
FallingMacdSell(prev, row) ==
    /\ RLt(row.macd, prev.macd)
    /\ RGt(row.stoch_k, RInt(StochMidline)) /\ RLt(row.stoch_k, row.stoch_d)

\* The body of the main loop of MACDStochasticStrategy; n is len(df)
MACDRow(s, ls, prev, row, n) ==
    IF MacdRowIsNaN(row) THEN Skip("nan")
    ELSE IF ~CanSignal(ls, row.ticker, row.Datetime, s.cooldown_minutes)
         THEN Skip("cooldown")
    ELSE IF MacdBuy(prev, row)
         THEN Emit(Signal(row.ticker, "BUY",
                          IF StochCrossAbove(prev, row)
                             /\ RLt(prev.stoch_k, RInt(s.stoch_oversold))
                          THEN "STRONG" ELSE "MODERATE",
                          "MACD crosses above signal line", row.Datetime, row.Close))
    ELSE IF MacdSell(prev, row)
         THEN Emit(Signal(row.ticker, "SELL",
                          IF StochCrossBelow(prev, row)
                             /\ RGt(prev.stoch_k, RInt(s.stoch_overbought))
                          THEN "STRONG" ELSE "MODERATE",
                          "MACD crosses below signal line", row.Datetime, row.Close))
    ELSE IF n < SmallDataset
         THEN IF RGt(row.macd, prev.macd)
              THEN IF RisingMacdBuy(prev, row)
                   THEN Emit(Signal(row.ticker, "BUY", "MODERATE", "Rising MACD",
                                    row.Datetime, row.Close))
                   ELSE Skip("none")
              ELSE IF RLt(row.macd, prev.macd)
              THEN IF FallingMacdSell(prev, row)
                   THEN Emit(Signal(row.ticker, "SELL", "MODERATE", "Falling MACD",
                                    row.Datetime, row.Close))
                   ELSE Skip("none")
              ELSE Skip("none")
    ELSE Skip("none")

(***************************************************************************)
(* generate_signals as a state machine: the rows of the bar series are     *)
(* read one per step, in timestamp order (the frame is sorted by its time  *)
(* column and carries its default 0..n-1 index).                           *)
(***************************************************************************)
MaxRows == 4                \* longest bar series given to generate_signals
TickSeconds == 600          \* granularity of the timestamps
GapTicks == {1, 3}          \* spacing of consecutive bars, in ticks

Max(a, b) == IF a > b THEN a ELSE b

Kinds == {"MA", "BB", "MACD"}
\* A strategy instance: its class and the parameters of its constructor that
\* the signal rules read (the periods are SlowMa, BbLength, MacdSlow, ...)
StrategyOf(kind, mean_reversion, rsi_overbought, rsi_oversold) ==
    [kind |-> kind, mean_reversion |-> mean_reversion,
     cooldown_minutes |-> CooldownMinutes,
     fast_ma |-> SlowMa - 1, slow_ma |-> SlowMa,
     rsi_overbought |-> rsi_overbought, rsi_oversold |-> rsi_oversold,
     stoch_overbought |-> StochOverbought, stoch_oversold |-> StochOversold]
\* The instances with the default thresholds
Strategies ==
    {StrategyOf(k, TRUE, RsiOverbought, RsiOversold) : k \in Kinds}
    \cup {StrategyOf("BB", FALSE, RsiOverbought, RsiOversold)}

\* The minimal length the strategies ask of the frame
MinRowsNone(s) == 0

MinRows(s) ==
    CASE s.kind = "MA" -> s.slow_ma
      [] s.kind = "BB" -> BbLength
      [] s.kind = "MACD" -> Max(MacdSlow, StochK + StochD)

\* The rows a series may hold at a timestamp: the indicator columns of the
\* strategy, all of them valid or all of them NaN (warm-up).
MAValues == [fast_ma : {RInt(1), RInt(2), RInt(3)}, slow_ma : {RInt(2)},
             rsi : {RInt(30), RInt(50), RInt(70)}, Close : {RInt(10)}]
             \cup [fast_ma : {NaN}, slow_ma : {NaN}, rsi : {NaN}, Close : {RInt(10)}]
BBValues == [bb_lower : {RInt(1)}, bb_middle : {RInt(2)}, bb_upper : {RInt(3)},
             rsi : {RInt(10), RInt(30), RInt(40), RInt(60), RInt(70), RInt(90)},
             Close : {RInt(1), RInt(3)}]
             \cup [bb_lower : {NaN}, bb_middle : {NaN}, bb_upper : {NaN},
                   rsi : {NaN}, Close : {RInt(1), RInt(3)}]
MACDValues == {[macd |-> m, macd_signal |-> RInt(2), stoch_k |-> kd[1],
                stoch_d |-> kd[2], Close |-> RInt(1)] :
                   m \in {RInt(1), RInt(3)},
                   kd \in {<<RInt(40), RInt(30)>>, <<RInt(60), RInt(70)>>}}
               \cup [macd : {NaN}, macd_signal : {NaN}, stoch_k : {NaN},
                     stoch_d : {NaN}, Close : {RInt(1), RInt(2)}]
Values(kind) ==
    CASE kind = "MA" -> MAValues [] kind = "BB" -> BBValues [] kind = "MACD" -> MACDValues

Row(ticker, timestamp, v) ==
    [c \in DOMAIN v \cup {"ticker", "Datetime"} |->
        IF c = "ticker" THEN ticker ELSE IF c = "Datetime" THEN timestamp ELSE v[c]]

\* The row before the first one: shift(1) fills with NaN
NoRow == [Close |-> NaN, fast_ma |-> NaN, slow_ma |-> NaN, rsi |-> NaN,
          bb_middle |-> NaN, macd |-> NaN, macd_signal |-> NaN,
          stoch_k |-> NaN, stoch_d |-> NaN]

\* The timestamps the row after prev may carry (idx is its index)
Timestamps(prev, idx) ==
    IF idx = 0 THEN {0}
    ELSE {prev.Datetime + g * TickSeconds : g \in GapTicks}

RowsAfter(kind, ticker, prev, idx) ==
    {Row(ticker, t, v) : t \in Timestamps(prev, idx), v \in Values(kind)}

\* The loop body of the strategy at hand
RowBody(s, ls, prev, row, idx, n) ==
    CASE s.kind = "MA" -> MARow(s, ls, prev, row, idx)
      [] s.kind = "BB" -> BBRow(s, ls, prev, row, idx)
      [] s.kind = "MACD" -> MACDRow(s, ls, prev, row, n)

IdleCall == [phase |-> "idle"]
DfShapes == {"ok", "missing_columns", "no_time_column"}

\* generate_signals up to its loops: the soft failures return [] at once.
\* The call keeps the length and the shape of the frame it was given.
GenerateSignalsBegin ==
    /\ call.phase = "idle"
    /\ \E ticker \in TICKERS, n \in 0..MaxRows, shape \in DfShapes :
         call' = IF n = 0 \/ shape # "ok" \/ n < MinRows(strategy)
                 THEN [phase |-> "idle", n |-> n, shape |-> shape]
                 ELSE [phase |-> IF strategy.kind = "MACD" /\ n < SmallDataset
                                 THEN "scan" ELSE "loop",
                       ticker |-> ticker, n |-> n, idx |-> 0, prev |-> NoRow,
                       scanned |-> <<>>, outcome |-> "begin", shape |-> shape]
    /\ signals' = <<>>
    /\ UNCHANGED <<TICKERS, strategy, last_signals, simVars, callerVars>>

\* MACD+Stochastic on a small dataset: one pass of the search for the first
\* row with valid indicators; finding it appends the initial Signal.
ScanRow ==
    /\ call.phase = "scan"
    /\ Len(call.scanned) < call.n
    /\ \E row \in RowsAfter(strategy.kind, call.ticker, call.prev, Len(call.scanned)) :
         LET rows == Append(call.scanned, row)
         IN  IF MacdRowIsNaN(row)
             THEN /\ call' = [call EXCEPT !.scanned = rows, !.prev = row]
                  /\ UNCHANGED signals
             ELSE /\ call' = [call EXCEPT !.scanned = rows, !.prev = NoRow,
                                          !.phase = "loop", !.outcome = "initial"]
                  /\ signals' = Append(signals, InitialSignal(rows))
    /\ UNCHANGED <<TICKERS, strategy, last_signals, simVars, callerVars>>

\* The search ended without a valid row: valid_idx is None.
ScanEnd ==
    /\ call.phase = "scan"
    /\ Len(call.scanned) = call.n
    /\ call' = [call EXCEPT !.phase = "loop", !.prev = NoRow]
    /\ UNCHANGED <<TICKERS, strategy, last_signals, signals, simVars, callerVars>>

\* One pass of "for idx, row in df.iterrows()" over a row out of rows
ProcessRowOutOf(rows) ==
    /\ call.phase = "loop"
    /\ call.idx < call.n
    /\ \E row \in rows :
         LET r == RowBody(strategy, last_signals, call.prev, row, call.idx, call.n)
         IN  /\ signals' = signals \o r.emit
             /\ last_signals' = IF r.emit # <<>>
                                THEN UpdateLastSignal(last_signals, r.emit[1])
                                ELSE last_signals
             /\ call' = [call EXCEPT !.idx = @ + 1, !.prev = row,
                                     !.scanned = IF @ # <<>> THEN Tail(@) ELSE @,
                                     !.outcome = r.outcome]
    /\ UNCHANGED <<TICKERS, strategy, simVars, callerVars>>

\* The pass over a row the search has read already, or over the next row of
\* the series
ProcessRow ==
    ProcessRowOutOf(IF call.scanned # <<>> THEN {Head(call.scanned)}
                    ELSE RowsAfter(strategy.kind, call.ticker, call.prev, call.idx))

\* return signals
ReturnSignals ==
    /\ call.phase = "loop"
    /\ call.idx = call.n
    /\ call' = IdleCall
    /\ UNCHANGED <<TICKERS, strategy, last_signals, signals, simVars, callerVars>>

InitStrategy ==
    /\ TICKERS = {"AAPL"}
    /\ strategy \in Strategies
    /\ last_signals = <<>>
    /\ call = IdleCall
    /\ signals = <<>>
    /\ bars = <<>>
    /\ returned = <<>>
    /\ run = NoRun
    /\ frames = <<>>
    /\ db = NoDb
    /\ op = NoOp
    /\ advisor = NoAdvisor
    /\ bt = [initial_capital |-> RZero, commission |-> RZero]
    /\ portfolio = NoPortfolio
    /\ i = 0
    /\ current_cash = RZero
    /\ current_position = 0
    /\ metrics = None
    /\ pc = "off"

NextStrategy ==
    GenerateSignalsBegin \/ ScanRow \/ ScanEnd \/ ProcessRow \/ ReturnSignals

SpecStrategy == InitStrategy /\ [][NextStrategy]_vars

(***************************************************************************)
(* One Strategy instance fed the series of two tickers in turn, with the   *)
(* default cooldown or none (cooldown_minutes is a constructor argument).  *)
(***************************************************************************)
Cooldowns == {0, CooldownMinutes}
CooldownKinds == {"MA", "BB"}

\* Rows with valid indicators on which a rule of the strategy fires
TradingValues(kind) ==
    IF kind = "MA"
    THEN [fast_ma : {RInt(1), RInt(3)}, slow_ma : {RInt(2)},
          rsi : {RInt(RsiMidline)}, Close : {RInt(10)}]
    ELSE {[bb_lower |-> RInt(1), bb_middle |-> RInt(2), bb_upper |-> RInt(3),
           rsi |-> RInt(r), Close |-> RInt(c)] :
             <<c, r>> \in {<<1, StrongBuyRsi - 10>>, <<3, StrongSellRsi + 10>>}}

\* The pass of the loop over the next row of such a series
ProcessTradingRow ==
    ProcessRowOutOf({Row(call.ticker, t, v) :
                        t \in Timestamps(call.prev, call.idx),
                        v \in TradingValues(strategy.kind)})

InitCooldown ==
    /\ TICKERS = {"AAPL", "MSFT"}
    /\ strategy \in {[StrategyOf(k, TRUE, RsiOverbought, RsiOversold)
                         EXCEPT !.cooldown_minutes = c] :
                            k \in CooldownKinds, c \in Cooldowns}
    /\ last_signals = <<>>
    /\ call = IdleCall
    /\ signals = <<>>
    /\ bars = <<>>
    /\ returned = <<>>
    /\ run = NoRun
    /\ frames = <<>>
    /\ db = NoDb
    /\ op = NoOp
    /\ advisor = NoAdvisor
    /\ bt = [initial_capital |-> RZero, commission |-> RZero]
    /\ portfolio = NoPortfolio
    /\ i = 0
    /\ current_cash = RZero
    /\ current_position = 0
    /\ metrics = None
    /\ pc = "off"

NextCooldown == GenerateSignalsBegin \/ ProcessTradingRow \/ ReturnSignals

SpecCooldown == InitCooldown /\ [][NextCooldown]_vars

(***************************************************************************)
(* generate_signals as one call, and its callers: the bars held for a      *)
(* ticker grow, and the one Strategy instance is given the whole series    *)
(* each time (src/advisor.py process_ticker).                              *)
(***************************************************************************)
MaxStoredBars == 3          \* longest stored bar series
MaxCycles == 2              \* calls of generate_signals on the instance

\* Index of the first row at or after idx with valid indicators, Len(df)
\* if there is none (valid_idx is None)
RECURSIVE ValidIdx(_, _)
ValidIdx(df, idx) ==
    IF idx = Len(df) THEN idx
    ELSE IF ~MacdRowIsNaN(df[idx + 1]) THEN idx
    ELSE ValidIdx(df, idx + 1)

\* "for idx, row in df.iterrows()" from row idx on: acc is the list built
\* so far, ls the dictionary self.last_signals.
RECURSIVE SignalLoop(_, _, _, _, _)
SignalLoop(s, ls, df, idx, acc) ==
    IF idx = Len(df) THEN [signals |-> acc, last_signals |-> ls]
    ELSE LET prev == IF idx = 0 THEN NoRow ELSE df[idx]
             r == RowBody(s, ls, prev, df[idx + 1], idx, Len(df))
         IN  SignalLoop(s,
                        IF r.emit # <<>> THEN UpdateLastSignal(ls, r.emit[1]) ELSE ls,
                        df, idx + 1, acc \o r.emit)

\* strategy.generate_signals(df): the returned list and the dictionary
\* self.last_signals it leaves behind
GenerateSignals(s, ls, df) ==
    IF Len(df) = 0 \/ Len(df) < MinRows(s)
    THEN [signals |-> <<>>, last_signals |-> ls]
    ELSE LET valid_idx == ValidIdx(df, 0)
             initial == IF s.kind = "MACD" /\ Len(df) < SmallDataset
                           /\ valid_idx < Len(df)
                        THEN <<InitialSignal(SubSeq(df, 1, valid_idx + 1))>>
                        ELSE <<>>
         IN  SignalLoop(s, ls, df, 0, initial)

\* A bar of the warm-up of MACD: the MACD line (slow EMA) and the
\* stochastic are defined before the signal line, which needs further bars
MacdWarmingValues ==
    {[macd |-> RInt(1), macd_signal |-> NaN, stoch_k |-> RInt(40),
      stoch_d |-> RInt(30), Close |-> RInt(1)]}

\* The rows a stored bar may hold: one row per branch of the strategies
StoredValues(kind) ==
    CASE kind = "MA" ->
           {v \in MAValues : v.fast_ma # RInt(2) /\ v.rsi \in {NaN, RInt(50)}}
      [] kind = "BB" ->
           {v \in BBValues :
               \/ v.Close = RInt(1) /\ v.rsi \in {NaN, RInt(10), RInt(40)}
               \/ v.Close = RInt(3) /\ v.rsi \in {RInt(60), RInt(90)}}
      [] kind = "MACD" -> MACDValues \cup MacdWarmingValues

\* load_from_sqlite(ticker=ticker): the stored bars of the ticker
BarsOf(ticker) == SelectSeq(bars, LAMBDA row : row.ticker = ticker)

\* A new bar of a ticker is stored, later than the ticker's bars so far.
\* The series is complete before the strategy is first given it.
StoreBar ==
    /\ returned = <<>>
    /\ run = NoRun
    /\ frames = <<>>
    /\ db = NoDb
    /\ op = NoOp
    /\ advisor = NoAdvisor
    /\ \E ticker \in TICKERS :
         LET df == BarsOf(ticker)
             prev == IF df = <<>> THEN NoRow ELSE df[Len(df)]
         IN  /\ Len(df) < MaxStoredBars
             /\ \E t \in Timestamps(prev, Len(df)), v \in StoredValues(strategy.kind) :
                  bars' = Append(bars, Row(ticker, t, v))
    /\ UNCHANGED <<returned, run, frames, db, op, advisor, stratVars, simVars>>

\* process_ticker(ticker): no data returns [] without a call, otherwise
\* the whole series goes to strategy.generate_signals.
ProcessTicker ==
    /\ Len(returned) < MaxCycles
    /\ call.phase = "idle"
    /\ \E ticker \in TICKERS :
         LET df == BarsOf(ticker)
             r == IF df = <<>> THEN [signals |-> <<>>, last_signals |-> last_signals]
                  ELSE GenerateSignals(strategy, last_signals, df)
         IN  /\ signals' = r.signals
             /\ last_signals' = r.last_signals
             /\ returned' = Append(returned, [ticker |-> ticker, df |-> df,
                                              signals |-> r.signals])
    /\ UNCHANGED <<TICKERS, strategy, call, bars, run, frames, db, op, advisor, simVars>>

NextRerun == StoreBar \/ ProcessTicker

SpecRerun == InitStrategy /\ [][NextRerun]_vars

(***************************************************************************)
(* One pass of a signal loop on its own: any two consecutive rows, any     *)
(* index, on an instance that has recorded no signal, with the thresholds  *)
(* of the constructor varied.                                              *)
(***************************************************************************)
\* Instances with the RSI thresholds set apart, together and crossed
RuleStrategies ==
    {StrategyOf(k, TRUE, ob, os) :
        k \in {"MA", "BB"}, ob \in {RsiMidline, RsiOverbought},
        os \in {RsiOversold, RsiMidline}}
    \cup {StrategyOf("BB", FALSE, ob, os) :
        ob \in {RsiMidline, RsiOverbought}, os \in {RsiOversold, RsiMidline}}
    \cup {StrategyOf("MACD", TRUE, RsiOverbought, RsiOversold)}

\* The rows of a pass: bands apart, collapsed or inverted, RSI and
\* Stochastic at, between and beyond the thresholds, a MACD row whose signal
\* line is still warming up
RuleValues(kind) ==
    CASE kind = "MA" -> MAValues
      [] kind = "BB" ->
           {[bb_lower |-> RInt(b[1]), bb_middle |-> RInt(2), bb_upper |-> RInt(b[2]),
             rsi |-> RInt(r), Close |-> RInt(c)] :
               b \in {<<1, 3>>, <<2, 2>>, <<3, 1>>}, c \in {1, 2, 3},
               r \in {10, 30, 40, 50, 60, 70, 90}}
           \cup {[bb_lower |-> NaN, bb_middle |-> NaN, bb_upper |-> NaN,
                  rsi |-> NaN, Close |-> RInt(1)]}
      [] kind = "MACD" ->
           [macd : {RInt(1), RInt(2), RInt(3)}, macd_signal : {RInt(2)},
            stoch_k : {RInt(10), RInt(20), RInt(40), RInt(50), RInt(60),
                       RInt(80), RInt(90)},
            stoch_d : {RInt(30), RInt(70)}, Close : {RInt(1)}]
           \cup [macd : {NaN, RInt(1), RInt(3)}, macd_signal : {NaN},
                 stoch_k : {RInt(40)}, stoch_d : {RInt(30)}, Close : {RInt(1)}]

\* The lengths of the frame a pass may belong to: small, and not small
FrameLengths == {MaxRows, SmallDataset}

\* The BUY-class and the SELL-class condition of the strategy at a row
BuyCondition(s, prev, row, n) ==
    CASE s.kind = "MA" -> GoldenCross(prev, row)
      [] s.kind = "BB" -> IF s.mean_reversion THEN MeanReversionBuy(s, row)
                          ELSE BreakoutBuy(s, prev, row)
      [] s.kind = "MACD" ->
           MacdBuy(prev, row) \/ (n < SmallDataset /\ RisingMacdBuy(prev, row))
SellCondition(s, prev, row, n) ==
    CASE s.kind = "MA" -> DeathCross(prev, row)
      [] s.kind = "BB" -> IF s.mean_reversion THEN MeanReversionSell(s, row)
                          ELSE BreakoutSell(s, prev, row)
      [] s.kind = "MACD" ->
           MacdSell(prev, row) \/ (n < SmallDataset /\ FallingMacdSell(prev, row))

\* The required indicators of the strategy are free of NaN at the row
NaNFree(s, row) ==
    CASE s.kind = "MA" -> ~(IsNaN(row.fast_ma) \/ IsNaN(row.slow_ma) \/ IsNaN(row.rsi))
      [] s.kind = "BB" -> ~(IsNaN(row.bb_lower) \/ IsNaN(row.bb_upper) \/ IsNaN(row.rsi))
      [] s.kind = "MACD" -> ~MacdRowIsNaN(row)

\* One pass of "for idx, row in df.iterrows()": before is the row at idx - 1
LoopPass ==
    /\ call = IdleCall
    /\ \E ticker \in TICKERS, n \in FrameLengths, idx \in 0..(MaxRows - 1),
          before \in RuleValues(strategy.kind), v \in RuleValues(strategy.kind) :
         LET prev == IF idx = 0 THEN NoRow ELSE Row(ticker, 0, before)
             row == Row(ticker, TickSeconds, v)
             r == RowBody(strategy, last_signals, prev, row, idx, n)
         IN  /\ signals' = signals \o r.emit
             /\ last_signals' = IF r.emit # <<>>
                                THEN UpdateLastSignal(last_signals, r.emit[1])
                                ELSE last_signals
             /\ call' = [phase |-> "pass", ticker |-> ticker, n |-> n, idx |-> idx,
                         before |-> prev, prev |-> row, scanned |-> <<>>,
                         outcome |-> r.outcome]
    /\ UNCHANGED <<TICKERS, strategy, simVars, callerVars>>

InitRules ==
    /\ TICKERS = {"AAPL"}
    /\ strategy \in RuleStrategies
    /\ last_signals = <<>>
    /\ call = IdleCall
    /\ signals = <<>>
    /\ bars = <<>>
    /\ returned = <<>>
    /\ run = NoRun
    /\ frames = <<>>
    /\ db = NoDb
    /\ op = NoOp
    /\ advisor = NoAdvisor
    /\ bt = [initial_capital |-> RZero, commission |-> RZero]
    /\ portfolio = NoPortfolio
    /\ i = 0
    /\ current_cash = RZero
    /\ current_position = 0
    /\ metrics = None
    /\ pc = "off"

NextRules == LoopPass

SpecRules == InitRules /\ [][NextRules]_vars

(***************************************************************************)
(* Backtester.run: src/backtest.py l.121-198.  The frame is the bar series *)
(* of a ticker.  It holds a Datetime column and may hold a Date column as  *)
(* well: the strategies read Datetime first, run reads Date first.         *)
(***************************************************************************)
DayTicks == 6               \* ticks in a calendar day

\* The Date of a bar: the start of the day of its Datetime
DateOf(t) == (t \div (DayTicks * TickSeconds)) * (DayTicks * TickSeconds)

\* combined[time_col]
TimeColumn(df, has_date) ==
    [k \in 1..Len(df) |-> IF has_date THEN DateOf(df[k].Datetime) ELSE df[k].Datetime]

\* (combined[time_col] - timestamp).abs().idxmin(): the label of the first
\* row with the smallest absolute difference
ClosestIdx(times, timestamp) ==
    CHOOSE k \in 0..(Len(times) - 1) :
        /\ \A j \in 0..(Len(times) - 1) :
              Abs(At(times, k) - timestamp) <= Abs(At(times, j) - timestamp)
        /\ \A j \in 0..(k - 1) :
              Abs(At(times, j) - timestamp) > Abs(At(times, k) - timestamp)

\* The value written for an action
SignalValue(action) == IF action = "BUY" THEN RInt(1) ELSE RInt(-1)

\* "for _, row in signal_df.iterrows()": the signal column col after the
\* signals from number k on are written
RECURSIVE WriteSignals(_, _, _, _)
WriteSignals(times, sigs, k, col) ==
    IF k > Len(sigs) THEN col
    ELSE WriteSignals(times, sigs, k + 1,
                      Put(col, ClosestIdx(times, sigs[k].timestamp),
                          SignalValue(sigs[k].action)))

\* combined['signal'] after the loop over the signals
SignalColumnFirstWins(times, sigs) ==
    WriteSignals(times, [k \in 1..Len(sigs) |-> sigs[Len(sigs) + 1 - k]], 1,
                 [k \in 1..Len(times) |-> NaN])

SignalColumn(times, sigs) ==
    WriteSignals(times, sigs, 1, [k \in 1..Len(times) |-> NaN])

\* The DataFrame objects of a run, numbered in the order of their
\* creation.  A frame is its set of columns, the type of its time column
\* and its number of rows: no statement of run or of the strategies writes
\* anything else of a frame.
TimeTypes == {"object", "datetime64"}
BaseColumns(has_date, shape) ==
    {"ticker", "Close"}
    \cup (IF shape = "no_time_column" THEN {} ELSE {"Datetime"})
    \cup (IF has_date /\ shape # "no_time_column" THEN {"Date"} ELSE {})
IndicatorColumns ==
    {"rsi14", "ma50", "ma200", "bb_lower", "bb_middle", "bb_upper",
     "macd", "macd_signal", "macd_hist", "stoch_k", "stoch_d"}
\* The columns generate_signals adds to its frame
WorkColumns(kind) ==
    CASE kind = "MA" -> {"fast_ma", "slow_ma", "rsi", "fast_ma_prev",
                         "slow_ma_prev", "golden_cross", "death_cross"}
      [] kind = "BB" -> {"bb_pct"}
      [] kind = "MACD" -> {"macd_prev", "macd_signal_prev", "stoch_k_prev",
                           "stoch_d_prev", "macd_cross_above", "macd_cross_below",
                           "stoch_cross_above", "stoch_cross_below"}
Frame(columns, time_type, n) == [columns |-> columns, time_type |-> time_type, rows |-> n]

\* df.copy(), df.sort_values(...): the heap with a new object holding the
\* contents of frame id, and the reference to it
CopyFrameShared(h, id) == [heap |-> h, ref |-> id]

CopyFrame(h, id) == [heap |-> Append(h, h[id]), ref |-> Len(h) + 1]
\* df[col] = ... for each of the columns
AddColumns(h, id, columns) == [h EXCEPT ![id].columns = @ \cup columns]
\* df[time_col] = pd.to_datetime(df[time_col])
ToDatetime(h, id) == [h EXCEPT ![id].time_type = "datetime64"]

\* calculate_all_indicators(df): a copy, with the indicators that could be
\* computed; ref is the frame run binds df to
WithIndicators(h, shape) ==
    LET c == CopyFrame(h, 1)
    IN  IF shape = "missing_columns" THEN c
        ELSE [c EXCEPT !.heap = AddColumns(@, c.ref, IndicatorColumns)]
\* generate_signals(df) on the frame df: the early returns touch nothing,
\* then a sorted copy, which gets the working columns if it is long enough
WithStrategyFrame(h, df, s, shape, n) ==
    IF shape # "ok" THEN h
    ELSE LET c == CopyFrame(h, df)
         IN  IF n < MinRows(s) THEN c.heap
             ELSE AddColumns(c.heap, c.ref, WorkColumns(s.kind))
\* The rest of run once there are signals: the time column of df converted,
\* then combined = df.copy() with its signal column
WithCombined(h, df) ==
    LET c == CopyFrame(ToDatetime(h, df), df)
    IN  AddColumns(c.heap, c.ref, {"signal"})

\* The heap after run(df) on the caller's frame input
RunFrames(input, s, shape, any_signals) ==
    IF input.rows = 0 THEN <<input>>
    ELSE LET c == WithIndicators(<<input>>, shape)
             h == WithStrategyFrame(c.heap, c.ref, s, shape, input.rows)
         IN  IF any_signals THEN WithCombined(h, c.ref) ELSE h

\* "if not signals"
NoSignalsNever(sigs) == FALSE

NoSignals(sigs) == sigs = <<>>

\* run(df) up to the call of _simulate_portfolio.  shape is what
\* calculate_all_indicators leaves: each indicator is added fail-soft, so
\* the columns a strategy needs may be missing.
RunBegin ==
    /\ run = NoRun
    /\ frames = <<>>
    /\ db = NoDb
    /\ op = NoOp
    /\ advisor = NoAdvisor
    /\ pc = "idle"
    /\ \E ticker \in TICKERS, has_date \in BOOLEAN, shape \in DfShapes,
          time_type \in TimeTypes :
         LET df == BarsOf(ticker)
             input == Frame(BaseColumns(has_date, shape), time_type, Len(df))
             times == TimeColumn(df, has_date)
             r == IF shape = "ok" THEN GenerateSignals(strategy, last_signals, df)
                  ELSE [signals |-> <<>>, last_signals |-> last_signals]
             n == Len(df)
         IN  IF df = <<>>
             THEN /\ run' = [phase |-> "returned", times |-> <<>>, results |-> None,
                              input |-> input]
                  /\ frames' = RunFrames(input, strategy, shape, FALSE)
                  /\ UNCHANGED <<signals, last_signals, simVars>>
             ELSE /\ signals' = r.signals
                  /\ frames' = RunFrames(input, strategy, shape,
                                         ~NoSignals(r.signals))
                  /\ last_signals' = r.last_signals
                  /\ IF NoSignals(r.signals)
                     THEN /\ run' = [phase |-> "returned", times |-> times,
                                     results |-> None, input |-> input]
                          /\ UNCHANGED simVars
                     ELSE /\ run' = [phase |-> "simulate", times |-> times,
                                     results |-> None, input |-> input]
                          /\ portfolio' =
                                [price |-> [k \in 1..n |-> df[k].Close],
                                 signal |-> SignalColumn(times, r.signals),
                                 position |-> PositionColumn(
                                                 SignalColumn(times, r.signals)),
                                 cash |-> [k \in 1..n |-> bt.initial_capital],
                                 holdings |-> [k \in 1..n |-> RZero],
                                 total |-> [k \in 1..n |-> bt.initial_capital],
                                 daily_return |-> <<>>]
                          /\ current_cash' = bt.initial_capital
                          /\ current_position' = 0
                          /\ i' = 0
                          /\ metrics' = None
                          /\ pc' = "loop"
                          /\ UNCHANGED bt
    /\ UNCHANGED <<TICKERS, strategy, call, bars, returned, db, op, advisor>>

\* The results dictionary, once the metrics are there
RunReturn ==
    /\ run.phase = "simulate"
    /\ pc = "done"
    /\ run' = [run EXCEPT !.phase = "returned",
                          !.results =
                              [signals |-> Len(signals),
                               buy_signals |-> Len(SelectSeq(signals,
                                                  LAMBDA sg : sg.action = "BUY")),
                               sell_signals |-> Len(SelectSeq(signals,
                                                   LAMBDA sg : sg.action = "SELL")),
                               metrics |-> metrics]]
    /\ UNCHANGED <<bars, returned, frames, db, op, advisor, stratVars, simVars>>

\* The frame is complete before it is given to run
LoadBar == run = NoRun /\ StoreBar

InitRun ==
    /\ bt \in [initial_capital : InitialCapitals, commission : Commissions]
    /\ portfolio = NoPortfolio
    /\ i = 0
    /\ current_cash = RZero
    /\ current_position = 0
    /\ metrics = None
    /\ pc = "idle"
    /\ TICKERS = {"AAPL"}
    /\ strategy \in Strategies
    /\ last_signals = <<>>
    /\ call = IdleCall
    /\ signals = <<>>
    /\ bars = <<>>
    /\ returned = <<>>
    /\ run = NoRun
    /\ frames = <<>>
    /\ db = NoDb
    /\ op = NoOp
    /\ advisor = NoAdvisor

NextRun ==
    \/ LoadBar \/ RunBegin
    \/ SimulateRow \/ SimulateReturn \/ CalculateMetrics
    \/ RunReturn

SpecRun == InitRun /\ [][NextRun]_vars

(***************************************************************************)
(* MA Crossover on a series of closes: the averages come from the closes   *)
(* (src/app/indicators/tech.py add_moving_averages), the strategy has      *)
(* fast_ma = 2 and slow_ma = 3, the RSI is 50 at every bar and the bars    *)
(* are one cooldown apart.                                                 *)
(***************************************************************************)
MaxCloses == 6              \* longest series of closes
SeriesCloses == {8, 9, 10, 11}

SeriesStrategy ==
    [StrategyOf("MA", TRUE, RsiOverbought, RsiOversold)
        EXCEPT !.fast_ma = 2, !.slow_ma = 3]

\* Sum of closes[a..b], 1-based
RECURSIVE SumCloses(_, _, _)
SumCloses(closes, a, b) ==
    IF a > b THEN 0 ELSE closes[a] + SumCloses(closes, a + 1, b)

\* ta.sma(df['Close'], length) at the last row of closes: NaN until the
\* window is full
SMA(closes, length) ==
    IF Len(closes) < length THEN NaN
    ELSE RDiv(RInt(SumCloses(closes, Len(closes) - length + 1, Len(closes))),
              RInt(length))

\* The next bar of the series, one cooldown after the last one
LoadClose ==
    /\ returned = <<>>
    /\ Len(bars) < MaxCloses
    /\ \E ticker \in TICKERS, c \in SeriesCloses :
         LET closes == [k \in 1..(Len(bars) + 1) |->
                           IF k <= Len(bars) THEN bars[k].Close[1] ELSE c]
         IN  bars' = Append(bars,
                 [ticker |-> ticker,
                  Datetime |-> Len(bars) * strategy.cooldown_minutes * SecondsPerMinute,
                  Close |-> RInt(c),
                  fast_ma |-> SMA(closes, strategy.fast_ma),
                  slow_ma |-> SMA(closes, strategy.slow_ma),
                  rsi |-> RInt(RsiMidline)])
    /\ UNCHANGED <<returned, run, frames, db, op, advisor, stratVars, simVars>>

InitSeries ==
    /\ TICKERS = {"AAPL"}
    /\ strategy = SeriesStrategy
    /\ last_signals = <<>>
    /\ call = IdleCall
    /\ signals = <<>>
    /\ bars = <<>>
    /\ returned = <<>>
    /\ run = NoRun
    /\ frames = <<>>
    /\ db = NoDb
    /\ op = NoOp
    /\ advisor = NoAdvisor
    /\ bt = [initial_capital |-> RZero, commission |-> RZero]
    /\ portfolio = NoPortfolio
    /\ i = 0
    /\ current_cash = RZero
    /\ current_position = 0
    /\ metrics = None
    /\ pc = "off"

NextSeries == LoadClose \/ ProcessTicker

SpecSeries == InitSeries /\ [][NextSeries]_vars

NoStrategy == [kind |-> "none"]

InitSim ==
    /\ bt \in [initial_capital : InitialCapitals, commission : Commissions]
    /\ portfolio = NoPortfolio
    /\ i = 0
    /\ current_cash = RZero
    /\ current_position = 0
    /\ metrics = None
    /\ pc = "idle"
    /\ TICKERS = {}
    /\ strategy = NoStrategy
    /\ last_signals = <<>>
    /\ call = IdleCall
    /\ signals = <<>>
    /\ bars = <<>>
    /\ returned = <<>>
    /\ run = NoRun
    /\ frames = <<>>
    /\ db = NoDb
    /\ op = NoOp
    /\ advisor = NoAdvisor

NextSim == SimulateBegin \/ SimulateRow \/ SimulateReturn \/ CalculateMetrics

SpecSim == InitSim /\ [][NextSim]_vars

(***************************************************************************)
(* Portfolio: src/app/portfolio/portfolio.py.  One SQLite database with    *)
(* the tables positions and transactions, both with an AUTOINCREMENT id,   *)
(* shared by the Portfolio objects, which differ by name.                  *)
(***************************************************************************)
MaxTransactions == 3        \* rows the transactions table may get
\* The position_id a caller may pass: every id either table can have given
PositionIds == 1..MaxTransactions
PortfolioNames == {"X", "Y"}
\* What is bought: ticker and shares
Purchases == {[ticker |-> "AAPL", shares |-> 1], [ticker |-> "MSFT", shares |-> 2]}
BuyPrices == {10}
SellPrices == {20}
\* The arguments of update_position
NewShareCounts == {3}

\* INSERT INTO positions: the new row gets the next id of the table
InsertPosition(d, name, ticker, shares, price) ==
    [d EXCEPT !.positions = @ \cup {[id |-> d.positions_seq + 1, portfolio |-> name,
                                     ticker |-> ticker, shares |-> shares,
                                     cost_basis |-> price]},
              !.positions_seq = @ + 1]
\* INSERT INTO transactions
InsertTransactionOfOneShare(d, name, ticker, action, shares, price) ==
    [d EXCEPT !.transactions = Append(@, [id |-> d.transactions_seq + 1,
                                          portfolio |-> name, ticker |-> ticker,
                                          action |-> action, shares |-> 1,
                                          price |-> price]),
              !.transactions_seq = @ + 1]

InsertTransaction(d, name, ticker, action, shares, price) ==
    [d EXCEPT !.transactions = Append(@, [id |-> d.transactions_seq + 1,
                                          portfolio |-> name, ticker |-> ticker,
                                          action |-> action, shares |-> shares,
                                          price |-> price]),
              !.transactions_seq = @ + 1]
\* SELECT ... FROM positions WHERE id = ?
PositionsWithId(d, position_id) == {p \in d.positions : p.id = position_id}

\* get_positions(): the rows of the portfolio, without the portfolio column
GetPositions(d, name) ==
    {[id |-> p.id, ticker |-> p.ticker, shares |-> p.shares,
      cost_basis |-> p.cost_basis] : p \in {q \in d.positions : q.portfolio = name}}

\* cursor.lastrowid after the two INSERTs of add_position: the rowid of the
\* last one, the transaction
LastRowId(d) == d.transactions_seq

\* add_position(ticker, shares, price) of the portfolio name
AddPosition ==
    /\ db.transactions_seq < MaxTransactions
    /\ \E name \in PortfolioNames, buy \in Purchases, price \in BuyPrices :
         LET d == InsertTransaction(
                      InsertPosition(db, name, buy.ticker, buy.shares, price),
                      name, buy.ticker, "BUY", buy.shares, price)
         IN  /\ db' = d
             /\ op' = [name |-> "add_position", portfolio |-> name,
                       result |-> LastRowId(d)]
    /\ UNCHANGED <<bars, returned, run, frames, advisor, stratVars, simVars>>

\* close_position(position_id, price) of the portfolio name
ClosePosition ==
    /\ db.transactions_seq < MaxTransactions
    /\ \E name \in PortfolioNames, position_id \in PositionIds,
          price \in SellPrices :
         LET rows == PositionsWithId(db, position_id)
         IN  IF rows = {}
             THEN /\ op' = [name |-> "close_position", portfolio |-> name,
                            position_id |-> position_id, result |-> FALSE]
                  /\ UNCHANGED db
             ELSE LET row == CHOOSE p \in rows : TRUE
                  IN  /\ db' = [InsertTransaction(db, name, row.ticker, "SELL",
                                                  row.shares, price)
                                   EXCEPT !.positions = @ \ rows]
                      /\ op' = [name |-> "close_position", portfolio |-> name,
                                position_id |-> position_id, result |-> TRUE]
    /\ UNCHANGED <<bars, returned, run, frames, advisor, stratVars, simVars>>

\* An optional argument: None, or <<v>> for the value v
Optional(values) == {None} \cup {<<v>> : v \in values}

\* update_position(position_id, shares) of the portfolio name; cost_basis
\* and notes, which go the same way as shares, are left out
UpdatePosition ==
    /\ \E name \in PortfolioNames, position_id \in PositionIds,
          shares \in Optional(NewShareCounts) :
         LET rows == PositionsWithId(db, position_id)
             updated == {[p EXCEPT !.shares = IF shares = None THEN @ ELSE shares[1]]
                            : p \in rows}
             found == shares # None /\ rows # {}
         IN  /\ db' = IF found
                      THEN [db EXCEPT !.positions = (@ \ rows) \cup updated]
                      ELSE db
             /\ op' = [name |-> "update_position", portfolio |-> name,
                       position_id |-> position_id, result |-> found]
    /\ UNCHANGED <<bars, returned, run, frames, advisor, stratVars, simVars>>

InitPortfolio ==
    /\ db = NoDb
    /\ op = NoOp
    /\ advisor = NoAdvisor
    /\ TICKERS = {}
    /\ strategy = NoStrategy
    /\ last_signals = <<>>
    /\ call = IdleCall
    /\ signals = <<>>
    /\ bars = <<>>
    /\ returned = <<>>
    /\ run = NoRun
    /\ frames = <<>>
    /\ bt = [initial_capital |-> RZero, commission |-> RZero]
    /\ portfolio = NoPortfolio
    /\ i = 0
    /\ current_cash = RZero
    /\ current_position = 0
    /\ metrics = None
    /\ pc = "off"

NextPortfolio == AddPosition \/ ClosePosition \/ UpdatePosition

SpecPortfolio == InitPortfolio /\ [][NextPortfolio]_vars

(***************************************************************************)
(* The advisor's threads (src/advisor.py run_scheduler).  The main thread  *)
(* starts the BackgroundScheduler and then calls update_dashboard itself;  *)
(* the scheduler runs the update_dashboard job on a thread of its pool at  *)
(* every cron time, one instance of the job at a time.  Both go through    *)
(* process_all_tickers and, for every ticker in turn, process_ticker and   *)
(* generate_signals of the one global strategy.  No lock is taken on the   *)
(* way.  A thread is [at, k]: where it is, and the index of its ticker.    *)
(***************************************************************************)
MaxJobRuns == 2
AdvisorTickers == <<"SPY", "AAPL", "MSFT", "GOOGL", "AMZN">>
Threads == {"main", "job"}

\* scheduler.start(): from here on the job can be run
SchedulerStart ==
    /\ advisor.scheduler = "off"
    /\ advisor' = [advisor EXCEPT !.scheduler = "running",
                                  !.main = [at |-> "started", k |-> 0]]
    /\ UNCHANGED <<bars, returned, run, frames, db, op, stratVars, simVars>>

\* the cron trigger runs the job unless an instance of it is still running
JobFires ==
    /\ advisor.scheduler = "running"
    /\ advisor.job.at = "off"
    /\ advisor.fired < MaxJobRuns
    /\ advisor' = [advisor EXCEPT !.job = [at |-> "update_dashboard", k |-> 0],
                                  !.fired = @ + 1]
    /\ UNCHANGED <<bars, returned, run, frames, db, op, stratVars, simVars>>

\* the initial update of the main thread
InitialUpdate ==
    /\ advisor.main.at = "started"
    /\ advisor' = [advisor EXCEPT !.main = [at |-> "update_dashboard", k |-> 0]]
    /\ UNCHANGED <<bars, returned, run, frames, db, op, stratVars, simVars>>

\* update_dashboard reaches process_all_tickers, which enters process_ticker
\* of the first ticker
ProcessAllTickers(th) ==
    /\ advisor[th].at = "update_dashboard"
    /\ advisor' = [advisor EXCEPT ![th] = [at |-> "process_ticker", k |-> 1]]
    /\ UNCHANGED <<bars, returned, run, frames, db, op, stratVars, simVars>>

\* process_ticker has loaded the data and calls strategy.generate_signals
GenerateSignalsCalled(th) ==
    /\ advisor[th].at = "process_ticker"
    /\ advisor' = [advisor EXCEPT ![th].at = "generate_signals"]
    /\ UNCHANGED <<bars, returned, run, frames, db, op, stratVars, simVars>>

\* generate_signals and process_ticker return; the loop of
\* process_all_tickers goes on to the next ticker, or ends
ProcessTickerReturns(th) ==
    /\ advisor[th].at = "generate_signals"
    /\ advisor' = [advisor EXCEPT ![th] =
                       IF advisor[th].k < Len(AdvisorTickers)
                       THEN [at |-> "process_ticker", k |-> advisor[th].k + 1]
                       ELSE [at |-> "display_dashboard", k |-> 0]]
    /\ UNCHANGED <<bars, returned, run, frames, db, op, stratVars, simVars>>

\* update_dashboard returns: the main thread sleeps, the job's thread is free
UpdateDashboardReturns(th) ==
    /\ advisor[th].at = "display_dashboard"
    /\ advisor' = [advisor EXCEPT ![th] =
                       IF th = "main" THEN [at |-> "sleep", k |-> 0] ELSE NoThread]
    /\ UNCHANGED <<bars, returned, run, frames, db, op, stratVars, simVars>>

InitAdvisor ==
    /\ advisor = NoAdvisor
    /\ db = NoDb
    /\ op = NoOp
    /\ TICKERS = {}
    /\ strategy = NoStrategy
    /\ last_signals = <<>>
    /\ call = [phase |-> "off"]
    /\ signals = <<>>
    /\ bars = <<>>
    /\ returned = <<>>
    /\ run = NoRun
    /\ frames = <<>>
    /\ bt = [initial_capital |-> RZero, commission |-> RZero]
    /\ portfolio = NoPortfolio
    /\ i = 0
    /\ current_cash = RZero
    /\ current_position = 0
    /\ metrics = None
    /\ pc = "off"

NextAdvisor ==
    \/ SchedulerStart
    \/ JobFires
    \/ InitialUpdate
    \/ \E th \in Threads : ProcessAllTickers(th)
    \/ \E th \in Threads : GenerateSignalsCalled(th)
    \/ \E th \in Threads : ProcessTickerReturns(th)
    \/ \E th \in Threads : UpdateDashboardReturns(th)

SpecAdvisor == InitAdvisor /\ [][NextAdvisor]_vars

(***************************************************************************)
(* Properties of the simulation, under SpecSim.                            *)
(***************************************************************************)
Rows == 0..(Len(portfolio.price) - 1)
RowStepTaken == pc = "loop" /\ i' = i + 1
BuyExecuted == RowStepTaken /\ current_position = 0 /\ current_position' = 1
SellExecuted == RowStepTaken /\ current_position = 1 /\ current_position' = 0
\* The position recorded for the bar before row k (0 before the first bar).
PriorRecordedPosition(k) == IF k = 0 THEN RZero ELSE At(portfolio.position, k - 1)
PriorCash(k) == IF k = 0 THEN bt.initial_capital ELSE At(portfolio.cash, k - 1)

\* C1: at every bar of the equity curve total = cash + holdings, cash >= 0
\* and holdings >= 0 (positive prices, commission in [0, 1)).
C1_EquityInvariant ==
    \A k \in Rows :
        /\ At(portfolio.total, k) = RAdd(At(portfolio.cash, k), At(portfolio.holdings, k))
        /\ RLe(RZero, At(portfolio.cash, k))
        /\ RLe(RZero, At(portfolio.holdings, k))

\* C1 witness: a finished run that bought, paid commission and sold again.
C1_Witness ==
    /\ pc = "done"
    /\ bt.commission # RZero
    /\ \E k \in Rows : k > 0 /\ At(portfolio.holdings, k - 1) # RZero
                        /\ At(portfolio.holdings, k) = RZero
                        /\ RLt(RZero, At(portfolio.cash, k))

\* C2: a BUY executes at bar i exactly when the bar's signal is +1 and the
\* position recorded for bar i-1 (0 before the first bar) is 0; it turns all
\* cash into holdings cash[i-1] / (1 + commission) and leaves cash 0.
C2_BuyOnRecordedPosition ==
    [][RowStepTaken =>
        /\ BuyExecuted <=> (At(portfolio.signal, i) = RInt(1)
                              /\ PriorRecordedPosition(i) = RZero)
        /\ BuyExecuted =>
              /\ At(portfolio'.holdings, i) =
                    RDiv(PriorCash(i), RAdd(ROne, bt.commission))
              /\ At(portfolio'.cash, i) = RZero]_vars

\* C3: a SELL executes at bar i exactly when the bar's signal is -1 and the
\* position recorded for bar i-1 is 1; it turns all holdings into cash
\* holdings[i-1] * price[i] / price[i-1] * (1 - commission), holdings 0.
C3_SellOnRecordedPosition ==
    [][RowStepTaken =>
        /\ SellExecuted <=> (At(portfolio.signal, i) = RInt(-1)
                               /\ PriorRecordedPosition(i) = ROne)
        /\ SellExecuted =>
              /\ At(portfolio'.cash, i) =
                    RMul(RMul(At(portfolio.holdings, i - 1),
                              RDiv(At(portfolio.price, i), At(portfolio.price, i - 1))),
                         RSub(ROne, bt.commission))
              /\ At(portfolio'.holdings, i) = RZero]_vars

\* C4: at a bar where neither a BUY nor a SELL executes, cash is the
\* previous bar's cash and holdings are the previous holdings revalued by
\* price[i] / price[i-1] when long, 0 when flat; at bar 0 cash is the
\* initial capital and holdings are 0.
C4_NoTradeFrame ==
    [][(RowStepTaken /\ ~BuyExecuted /\ ~SellExecuted) =>
        IF i > 0
        THEN /\ At(portfolio'.cash, i) = At(portfolio.cash, i - 1)
             /\ At(portfolio'.holdings, i) =
                   IF current_position = 1
                   THEN RMul(At(portfolio.holdings, i - 1),
                             RDiv(At(portfolio.price, i), At(portfolio.price, i - 1)))
                   ELSE RZero
        ELSE /\ At(portfolio'.cash, 0) = bt.initial_capital
             /\ At(portfolio'.holdings, 0) = RZero]_vars

\* C4 witness: a BUY signal met a long position at a bar whose price moved,
\* so the bar kept its cash and carries revalued holdings.
C4_Witness ==
    /\ pc = "loop" /\ i >= 2 /\ current_position = 1
    /\ At(portfolio.signal, i - 1) = RInt(1)
    /\ At(portfolio.holdings, i - 2) # RZero
    /\ At(portfolio.price, i - 1) # At(portfolio.price, i - 2)
    /\ At(portfolio.holdings, i - 1) # At(portfolio.holdings, i - 2)
    /\ At(portfolio.cash, i - 1) = At(portfolio.cash, i - 2)

\* Completed buy-then-sell round trips of the simulated run: the bars at
\* which the shares held at the previous bar were sold.
RoundTrips == {k \in Rows : k > 0 /\ At(portfolio.holdings, k - 1) # RZero
                                  /\ At(portfolio.holdings, k) = RZero}

\* C5: the metrics' trade list holds one trade per completed buy-then-sell
\* round trip of the simulation (an open without a close adds none), each
\* with return closePrice / openPrice - 1.
C5_TradesAreRoundTrips ==
    pc = "done" => metrics.trades = Cardinality(RoundTrips)

\* C6: initial capital 10000, commission 0, bars (100, +1), (110, none),
\* (100, -1): equity [10000, 11000, 10000], total return 0, one trade with
\* return 0, win rate 0, maximal drawdown (10000 - 11000) / 11000.
C6_Example ==
    (/\ pc = "done"
     /\ bt = [initial_capital |-> RInt(10000), commission |-> RZero]
     /\ portfolio.price = <<RInt(100), RInt(110), RInt(100)>>
     /\ portfolio.signal = <<RInt(1), NaN, RInt(-1)>>)
    => /\ portfolio.total = <<RInt(10000), RInt(11000), RInt(10000)>>
       /\ metrics.total_return = RZero
       /\ metrics.trade_returns = <<RZero>>
       /\ metrics.win_rate = RZero
       /\ metrics.max_drawdown = RDiv(RInt(10000 - 11000), RInt(11000))

(***************************************************************************)
(* Properties of the cooldown, under SpecStrategy and SpecRerun.           *)
(***************************************************************************)
\* The calls made so far as <<call, index>> positions of their Signals
Positions == {<<c, k>> : c \in 1..Len(returned), k \in 1..MaxRows + 1}
Emissions == {p \in Positions : p[2] <= Len(returned[p[1]].signals)}
SignalAt(p) == returned[p[1]].signals[p[2]]

\* C7: over any sequence of generate_signals calls on one instance, two
\* Signals emitted for the same ticker are never closer in time than
\* cooldown_minutes.
C7_CooldownSpacing ==
    \A p \in Emissions, q \in Emissions :
        (p # q /\ SignalAt(p).ticker = SignalAt(q).ticker)
        => Abs(SignalAt(p).timestamp - SignalAt(q).timestamp)
              >= strategy.cooldown_minutes * SecondsPerMinute

\* The moments can_signal is asked about: around the recorded signal of
\* the ticker (around 0 without one) and around the end of its cooldown
ProbeTickers == TICKERS \cup {"MSFT"}
ProbeTimes(tk) ==
    LET base == IF tk \in DOMAIN last_signals THEN last_signals[tk].timestamp ELSE 0
    IN  {base + m * strategy.cooldown_minutes * SecondsPerMinute + d :
            m \in {0, 1}, d \in {-1, 0, 1}}
RowExamined == call.phase = "loop" /\ call'.phase = "loop"

\* What can_signal answers for the record at hand
CanSignalLaw ==
    /\ \A tk \in ProbeTickers : \A t \in ProbeTimes(tk) :
            CanSignal(last_signals, tk, t, strategy.cooldown_minutes)
            <=> \/ tk \notin DOMAIN last_signals
                \/ t - last_signals[tk].timestamp
                      >= strategy.cooldown_minutes * SecondsPerMinute
    /\ \A tk \in ProbeTickers : \A t1 \in ProbeTimes(tk), t2 \in ProbeTimes(tk) :
            (t1 <= t2 /\ CanSignal(last_signals, tk, t1, strategy.cooldown_minutes))
            => CanSignal(last_signals, tk, t2, strategy.cooldown_minutes)

\* C8: can_signal is a read-only query: a row it refuses, or lets through
\* to no rule, leaves last_signals as it was; it is true exactly when the
\* ticker has no recorded signal or the time elapsed since the recorded one
\* is at least cooldown_minutes; so for a fixed record it does not turn from
\* false to true as the elapsed time decreases.  (The answers are looked at
\* for the record a call starts with and for every record that replaces it.)
C8_CanSignalReadOnly ==
    [][/\ call.phase = "idle" => CanSignalLaw
       /\ last_signals' # last_signals => CanSignalLaw'
       /\ (RowExamined /\ call'.outcome \in {"cooldown", "none"})
            => last_signals' = last_signals]_vars
C8_Witness ==
    /\ call.phase = "loop"
    /\ call.outcome = "cooldown"
    /\ call.ticker \in DOMAIN last_signals
    /\ call.prev.Datetime - last_signals[call.ticker].timestamp
          = (strategy.cooldown_minutes * SecondsPerMinute) - (2 * TickSeconds)

\* C9: whenever generate_signals appends a Signal to its list, the
\* last-signal record of that ticker becomes that Signal in the same step.
C9_EmissionUpdatesState ==
    [][Len(signals') > Len(signals)
         => LET sig == signals'[Len(signals')]
            IN  /\ sig.ticker \in DOMAIN last_signals'
                /\ last_signals'[sig.ticker] = sig]_vars

Repeated ==
    /\ returned # <<>>
    /\ Len(returned') = Len(returned) + 1
    /\ returned'[Len(returned')].ticker = returned[Len(returned)].ticker
    /\ returned'[Len(returned')].df = returned[Len(returned)].df
InitialReasons ==
    {"Initial position: near recent low", "Initial position: near recent high"}
Ungated(sig) == sig.reason \in InitialReasons

\* C10 as stated: a call with the bars of the call before it returns the
\* same list.
C10_PureFunction ==
    [][Repeated => returned'[Len(returned')].signals
                      = returned[Len(returned)].signals]_vars

\* C10 amended: a call with the bars of the call before it returns those
\* Signals of the earlier list that did not pass through can_signal (the
\* initial position of MACD+Stochastic), and none of the others; the lists
\* are equal only when the earlier call emitted nothing behind can_signal.
C10_RepeatReturnsUngated ==
    [][Repeated => returned'[Len(returned')].signals
                      = SelectSeq(returned[Len(returned)].signals, Ungated)]_vars
C10_Witness ==
    /\ Len(returned) >= 2
    /\ returned[1].df = returned[2].df
    /\ returned[2].signals # <<>>
    /\ Len(returned[1].signals) > Len(returned[2].signals)

(***************************************************************************)
(* Properties of the signal rules, under SpecStrategy: a step that         *)
(* examines a row takes it from call.prev (the row before) to call'.prev.  *)
(***************************************************************************)
Examined(kind) == RowExamined /\ strategy.kind = kind
NewSignals == SubSeq(signals', Len(signals) + 1, Len(signals'))
CooledDown ==
    CanSignal(last_signals, call'.prev.ticker, call'.prev.Datetime,
              strategy.cooldown_minutes)
\* signals.append of exactly one Signal with this action and strength, at
\* the row examined
Emits(action, strength) ==
    /\ Len(NewSignals) = 1
    /\ NewSignals[1].action = action
    /\ NewSignals[1].strength = strength
    /\ NewSignals[1].ticker = call'.prev.ticker
    /\ NewSignals[1].timestamp = call'.prev.Datetime
    /\ NewSignals[1].price = call'.prev.Close
EmitsNothing == NewSignals = <<>>

\* C11: at a bar of index >= slow_ma with fast MA, slow MA and RSI free of
\* NaN and can_signal true, MA Crossover emits BUY/STRONG exactly on
\* ma_fast[i-1] < ma_slow[i-1], ma_fast[i] > ma_slow[i], rsi[i] < overbought,
\* SELL/STRONG exactly on the mirror with rsi[i] > oversold, and nothing
\* otherwise; equal averages at either bar trigger nothing.
C11_MACrossoverRule ==
    [][(/\ Examined("MA")
        /\ call.idx >= SlowMa
        /\ ~IsNaN(call'.prev.fast_ma) /\ ~IsNaN(call'.prev.slow_ma)
        /\ ~IsNaN(call'.prev.rsi)
        /\ CooledDown)
       => LET p == call.prev
              r == call'.prev
              buy == /\ RLt(p.fast_ma, p.slow_ma) /\ RGt(r.fast_ma, r.slow_ma)
                     /\ RLt(r.rsi, RInt(strategy.rsi_overbought))
              sell == /\ RGt(p.fast_ma, p.slow_ma) /\ RLt(r.fast_ma, r.slow_ma)
                      /\ RGt(r.rsi, RInt(strategy.rsi_oversold))
          IN  /\ buy => Emits("BUY", "STRONG")
              /\ sell => Emits("SELL", "STRONG")
              /\ ~buy /\ ~sell => EmitsNothing
              /\ (p.fast_ma = p.slow_ma \/ r.fast_ma = r.slow_ma) => EmitsNothing]_vars
\* C11 witness: a golden cross past the warm-up rows emitted a BUY
C11_Witness ==
    /\ strategy.kind = "MA" /\ call.phase = "loop" /\ call.outcome = "emit"
    /\ signals # <<>>
    /\ signals[Len(signals)].action = "BUY"
    /\ signals[Len(signals)].timestamp = call.prev.Datetime
    /\ call.idx > SlowMa

(***************************************************************************)
(* Properties of the signal rules on one pass, under SpecRules.            *)
(***************************************************************************)
Passed == call.phase = "pass"
BothConditions ==
    /\ BuyCondition(strategy, call.before, call.prev, call.n)
    /\ SellCondition(strategy, call.before, call.prev, call.n)

\* C12 as stated: for each strategy, with any parameter values, at a bar
\* with NaN-free required indicators the BUY condition and the SELL
\* condition are never both true.
C12_MutuallyExclusive ==
    (Passed /\ NaNFree(strategy, call.prev)) => ~BothConditions

\* C12 amended: the two conditions are never both true when rsi_oversold <
\* rsi_overbought or the lower band is below the upper band; only Bollinger
\* mean-reversion with crossed thresholds and bands that are not apart has
\* both, and in every case one pass emits at most one Signal.
C12_ExclusiveUnlessCrossed ==
    (Passed /\ NaNFree(strategy, call.prev))
    => /\ BothConditions
          => /\ strategy.kind = "BB" /\ strategy.mean_reversion
             /\ strategy.rsi_oversold >= strategy.rsi_overbought
             /\ RGe(call.prev.bb_lower, call.prev.bb_upper)
       /\ Len(signals) <= 1
C12_Witness ==
    /\ Passed /\ NaNFree(strategy, call.prev)
    /\ BothConditions
    /\ Len(signals) = 1 /\ signals[1].action = "BUY"

\* The one Signal of the pass has this action and strength and sits at the
\* row of the pass
PassEmits(action, strength) ==
    /\ Len(signals) = 1
    /\ signals[1].action = action /\ signals[1].strength = strength
    /\ signals[1].ticker = call.prev.ticker
    /\ signals[1].timestamp = call.prev.Datetime
PassOf(kind) == Passed /\ strategy.kind = kind /\ NaNFree(strategy, call.prev)

\* The MACD+Stochastic rule of the documentation, on the rows p (prior)
\* and r (current)
CrossBuy(p, r) ==
    /\ RLt(p.macd, p.macd_signal) /\ RGt(r.macd, r.macd_signal)
    /\ RLt(r.stoch_k, RInt(StochMidline))
CrossSell(p, r) ==
    /\ RGt(p.macd, p.macd_signal) /\ RLt(r.macd, r.macd_signal)
    /\ RGt(r.stoch_k, RInt(StochMidline))
FromOversold(p, r) ==
    /\ RLt(p.stoch_k, p.stoch_d) /\ RGt(r.stoch_k, r.stoch_d)
    /\ RLt(p.stoch_k, RInt(strategy.stoch_oversold))
FromOverbought(p, r) ==
    /\ RGt(p.stoch_k, p.stoch_d) /\ RLt(r.stoch_k, r.stoch_d)
    /\ RGt(p.stoch_k, RInt(strategy.stoch_overbought))
MacdStochRule(p, r) ==
    IF CrossBuy(p, r)
    THEN PassEmits("BUY", IF FromOversold(p, r) THEN "STRONG" ELSE "MODERATE")
    ELSE IF CrossSell(p, r)
    THEN PassEmits("SELL", IF FromOverbought(p, r) THEN "STRONG" ELSE "MODERATE")
    ELSE signals = <<>>

\* C13: at every bar with NaN-free MACD and Stochastic values and
\* can_signal true, MACD+Stochastic emits BUY exactly when MACD crosses
\* above its signal line and %K < 50, STRONG iff %K also crosses above %D
\* from below stoch_oversold, else MODERATE; SELL is the mirror; nothing
\* otherwise.
C13_MacdStochRule ==
    PassOf("MACD") => MacdStochRule(call.before, call.prev)

\* The same on frames that are not small (len(df) >= 100)
MacdStochRuleOnLongFrames ==
    (PassOf("MACD") /\ call.n >= SmallDataset)
    => MacdStochRule(call.before, call.prev)

\* C14: no Signal of MACD+Stochastic comes from the length of the series:
\* every Signal appended sits at a row where the crossover rule holds,
\* whether the series has fewer than 100 rows or not.
C14_NoImplicitRelaxedMode ==
    [][(strategy.kind = "MACD" /\ Len(signals') > Len(signals))
       => /\ RowExamined
          /\ \/ CrossBuy(call.prev, call'.prev)
             \/ CrossSell(call.prev, call'.prev)]_vars

\* A pass of the Bollinger Bands loop over a row that is not skipped: the
\* bands and the RSI are numbers and idx >= bb_length
BBPass(mean_reversion) ==
    /\ PassOf("BB") /\ strategy.mean_reversion = mean_reversion
    /\ call.idx >= BbLength

\* C15: in mean-reversion mode, at every non-skipped bar with can_signal
\* true, BUY iff close <= lower band and rsi <= oversold (STRONG if
\* rsi < 20, else MODERATE), otherwise SELL iff close >= upper band and
\* rsi >= overbought (STRONG if rsi > 80, else MODERATE), nothing otherwise.
C15_MeanReversionRule ==
    BBPass(TRUE)
    => LET r == call.prev
       IN  IF /\ RLe(r.Close, r.bb_lower)
              /\ RLe(r.rsi, RInt(strategy.rsi_oversold))
           THEN PassEmits("BUY", IF RLt(r.rsi, RInt(20))
                                 THEN "STRONG" ELSE "MODERATE")
           ELSE IF /\ RGe(r.Close, r.bb_upper)
                   /\ RGe(r.rsi, RInt(strategy.rsi_overbought))
           THEN PassEmits("SELL", IF RGt(r.rsi, RInt(80))
                                  THEN "STRONG" ELSE "MODERATE")
           ELSE signals = <<>>

\* A pass that emits BUY with the close exactly on the lower band and the
\* RSI exactly at the oversold threshold
C15_Witness ==
    /\ BBPass(TRUE)
    /\ call.prev.Close = call.prev.bb_lower
    /\ call.prev.rsi = RInt(strategy.rsi_oversold)
    /\ PassEmits("BUY", "MODERATE")

\* C16: in breakout mode, at every non-skipped bar with can_signal true,
\* BUY/MODERATE iff the prior close was below the middle band, the close is
\* above it and 50 < rsi < overbought; SELL/MODERATE iff the prior close was
\* above the middle band, the close is below it and oversold < rsi < 50;
\* nothing otherwise.
C16_BreakoutRule ==
    BBPass(FALSE)
    => LET p == call.before
           r == call.prev
           up == /\ RLt(p.Close, p.bb_middle) /\ RGt(r.Close, r.bb_middle)
                 /\ RLt(RInt(50), r.rsi)
                 /\ RLt(r.rsi, RInt(strategy.rsi_overbought))
           down == /\ RGt(p.Close, p.bb_middle) /\ RLt(r.Close, r.bb_middle)
                   /\ RLt(RInt(strategy.rsi_oversold), r.rsi)
                   /\ RLt(r.rsi, RInt(50))
       IN  /\ up <=> PassEmits("BUY", "MODERATE")
           /\ down <=> PassEmits("SELL", "MODERATE")
           /\ (~up /\ ~down) => signals = <<>>

\* A pass that emits the breakout BUY
C16_Witness ==
    /\ BBPass(FALSE)
    /\ RLt(call.before.Close, call.before.bb_middle)
    /\ RGt(call.prev.Close, call.prev.bb_middle)
    /\ PassEmits("BUY", "MODERATE")

(***************************************************************************)
(* Properties of Backtester.run, under SpecRun.                            *)
(***************************************************************************)
\* run has written the signal column of the frame
Mapped == run.phase \in {"simulate", "returned"} /\ signals # <<>>
Bars == 0..(Len(run.times) - 1)
Distance(b, k) == Abs(At(run.times, b) - signals[k].timestamp)
Nearest(b, k) == \A c \in Bars : Distance(b, k) <= Distance(c, k)

\* The column is what the assignment of each signal to one bar gives:
\* NaN at a bar without a signal, otherwise +1 or -1 after a signal that no
\* other signal of the bar is later than
ColumnOf(to) ==
    \A b \in Bars :
        LET here == {k \in DOMAIN signals : to[k] = b}
        IN  IF here = {} THEN IsNaN(At(portfolio.signal, b))
            ELSE \E k \in here :
                    /\ \A j \in here : signals[j].timestamp <= signals[k].timestamp
                    /\ At(portfolio.signal, b) =
                          (IF signals[k].action = "BUY" THEN RInt(1) ELSE RInt(-1))

\* C17: run maps every Signal to the bar whose timestamp has the smallest
\* absolute difference from the signal's, writing +1 for BUY and -1 for
\* SELL; a bar several signals map to holds the value of the
\* chronologically last of them.
C17_NearestBarLastWins ==
    Mapped
    => \E to \in [DOMAIN signals -> Bars] :
          /\ \A k \in DOMAIN signals : Nearest(to[k], k)
          /\ ColumnOf(to)

\* A BUY and a later SELL map to the same bar, which is not at the
\* timestamp of the SELL
C17_Witness ==
    /\ Mapped
    /\ \E j, k \in DOMAIN signals, b \in Bars :
          /\ signals[j].action = "BUY" /\ signals[k].action = "SELL"
          /\ signals[j].timestamp < signals[k].timestamp
          /\ ClosestIdx(run.times, signals[j].timestamp) = b
          /\ ClosestIdx(run.times, signals[k].timestamp) = b
          /\ At(run.times, b) # signals[k].timestamp
          /\ At(portfolio.signal, b) = RInt(-1)

\* run was called and the frame was empty or the strategy returned no signal
Aborts == run.phase # "off" /\ (bars = <<>> \/ signals = <<>>)

\* C18: run returns None when the bar series is empty or generate_signals
\* returns zero signals; it does not raise, and no portfolio simulation or
\* metrics are computed.
C18_NullResult ==
    Aborts
    => /\ run.phase = "returned" /\ run.results = None
       /\ portfolio = NoPortfolio /\ metrics = None /\ pc = "idle"

\* run has returned None on a frame with bars for which the strategy, given
\* all its columns, had no signal
C18_Witness ==
    /\ Aborts /\ run.phase = "returned" /\ run.results = None
    /\ Len(bars) >= MinRows(strategy)
    /\ GenerateSignals(strategy, <<>>, bars).signals = <<>>

(***************************************************************************)
(* Properties of the soft failures, under SpecStrategy.                    *)
(***************************************************************************)
\* The minimum lookback of the strategy
MinLookback ==
    CASE strategy.kind = "MA" -> SlowMa
      [] strategy.kind = "BB" -> BbLength
      [] strategy.kind = "MACD" -> IF MacdSlow > StochK + StochD
                                   THEN MacdSlow ELSE StochK + StochD

\* This step is the start of a call of generate_signals
CallBegins == call.phase = "idle" /\ call' # call
\* The frame of the call lacks a required column or a time column, or is
\* shorter than the minimum lookback
FrameUnfit == call'.shape # "ok" \/ call'.n < MinLookback

\* C19: generate_signals of each strategy fails soft: on a frame without a
\* required indicator column, without a time column or with fewer bars
\* than the minimum lookback it returns an empty list at once and leaves
\* the last-signal state as it was.
C19_FailSoft ==
    [][(CallBegins /\ FrameUnfit)
       => /\ call'.phase = "idle"
          /\ signals' = <<>>
          /\ last_signals' = last_signals]_vars

\* A call on too short a frame has returned, and the record of an earlier
\* call's signal is still there
C19_Witness ==
    /\ call.phase = "idle" /\ call # IdleCall
    /\ call.shape = "ok" /\ call.n > 0 /\ call.n < MinLookback
    /\ signals = <<>>
    /\ last_signals # <<>>

(***************************************************************************)
(* Properties of a round trip, under SpecSim.                              *)
(***************************************************************************)
\* The BUY branch ran at row k: the cash is spent there and was not before
BoughtAt(k) ==
    /\ k >= 0
    /\ At(portfolio.signal, k) = RInt(1)
    /\ At(portfolio.cash, k) = RZero
    /\ (k = 0 \/ At(portfolio.cash, k - 1) # RZero)

FirstCall == returned[1]
SeriesOf(df) == [k \in 1..Len(df) |-> df[k].Close[1]]
\* Sum of the window of the given length ending at index k (0-based)
Window(closes, length, k) == SumCloses(closes, k + 2 - length, k + 1)
\* Both averages exist at index k and the fast one is strictly above
\* (below) the slow one: sums compared after cross-multiplication
FastAbove(closes, k) ==
    /\ k >= 2 /\ k < Len(closes)
    /\ 3 * Window(closes, 2, k) > 2 * Window(closes, 3, k)
FastBelow(closes, k) ==
    /\ k >= 2 /\ k < Len(closes)
    /\ 3 * Window(closes, 2, k) < 2 * Window(closes, 3, k)
\* k is the first index with the fast average below the slow one after an
\* index where it was above, and the mirror
DeathIndex(closes, k) ==
    /\ FastBelow(closes, k)
    /\ \E j \in 0..(k - 1) :
          FastAbove(closes, j) /\ \A m \in (j + 1)..(k - 1) : ~FastBelow(closes, m)
GoldenIndex(closes, k) ==
    /\ FastAbove(closes, k)
    /\ \E j \in 0..(k - 1) :
          FastBelow(closes, j) /\ \A m \in (j + 1)..(k - 1) : ~FastAbove(closes, m)
\* The call returned a Signal with this action at the bar of index k
EmittedAt(c, action, k) ==
    \E n \in DOMAIN c.signals :
        /\ c.signals[n].action = action
        /\ c.signals[n].timestamp = c.df[k + 1].Datetime
ExampleCloses == <<10, 9, 8, 9, 10, 11>>
ExampleCalled == returned # <<>> /\ SeriesOf(FirstCall.df) = ExampleCloses

\* C21 as stated: on closes [10,9,8,9,10,11] with fast 2 and slow 3 the
\* strategy emits a SELL at the death cross index and a BUY at the golden
\* cross index given by the exact averages.
C21_ExampleHasBothCrosses ==
    ExampleCalled
    => /\ \E k \in 0..5 : DeathIndex(ExampleCloses, k) /\ EmittedAt(FirstCall, "SELL", k)
       /\ \E k \in 0..5 : GoldenIndex(ExampleCloses, k) /\ EmittedAt(FirstCall, "BUY", k)

\* C21, amended: on every series the first call emits a SELL exactly at the
\* indices where the exact fast average is strictly below the slow one and
\* was strictly above it at the index before, a BUY exactly at the mirror
\* indices, and nothing else; on closes [10,9,8,9,10,11] that is one BUY
\* at index 4 and no SELL, the fast average never being above the slow one
\* before index 4.
C21_CrossesByExactAverages ==
    returned # <<>>
    => LET c == FirstCall
           closes == SeriesOf(c.df)
           sells == {k \in 0..(Len(closes) - 1) :
                        FastAbove(closes, k - 1) /\ FastBelow(closes, k)}
           buys == {k \in 0..(Len(closes) - 1) :
                        FastBelow(closes, k - 1) /\ FastAbove(closes, k)}
       IN  /\ \A k \in 0..(Len(closes) - 1) :
                 /\ EmittedAt(c, "SELL", k) <=> k \in sells
                 /\ EmittedAt(c, "BUY", k) <=> k \in buys
           /\ Len(c.signals) = Cardinality(sells) + Cardinality(buys)
           /\ closes = ExampleCloses
              => /\ Len(c.signals) = 1 /\ EmittedAt(c, "BUY", 4)
                 /\ \A k \in 0..5 : ~DeathIndex(closes, k)

\* The example series was given to the strategy, which returned one BUY
C21_Witness ==
    /\ ExampleCalled
    /\ Len(FirstCall.signals) = 1
    /\ FirstCall.signals[1].action = "BUY"
    /\ FirstCall.signals[1].timestamp = FirstCall.df[5].Datetime

(***************************************************************************)
(* Properties of the frames of Backtester.run, under SpecRun.              *)
(***************************************************************************)
\* C22: run leaves the caller's frame as it was, the same rows, columns
\* and values, whether it returns a result or None, for each strategy.
C22_InputUnchanged ==
    run.phase # "off" => frames[1] = run.input

\* run went as far as the simulation on a frame whose time column held
\* text: the frame run worked on has the indicators and a converted time
\* column, the caller's frame has neither
C22_Witness ==
    /\ run.phase = "returned" /\ run.results # None
    /\ frames[1] = run.input
    /\ run.input.time_type = "object"
    /\ \E id \in DOMAIN frames :
          /\ frames[id].time_type = "datetime64"
          /\ IndicatorColumns \subseteq frames[id].columns
          /\ "signal" \notin frames[id].columns

(***************************************************************************)
(* Properties of the portfolio, under SpecPortfolio.                       *)
(***************************************************************************)
Called(name) == op'.name = name /\ (op' # op \/ db' # db)
Created == db'.positions \ db.positions

\* C23: the ID add_position returns is the ID of the position it has just
\* created, after any sequence of add_position and close_position calls,
\* so that close_position and update_position with it act on that
\* position.
C23_AddReturnsPositionId ==
    [][Called("add_position")
       => \E p \in Created : p.id = op'.result]_vars

\* The position of the portfolio that the call names, if there is one
OwnPosition ==
    {p \in db.positions : p.id = op'.position_id /\ p.portfolio = op'.portfolio}
NewTransaction == db'.transactions[Len(db'.transactions)]

C30_IsolatedByName ==
    [][\A name \in PortfolioNames :
          (op'.name # "none" /\ op'.portfolio # name)
          => GetPositions(db', name) = GetPositions(db, name)]_vars

(***************************************************************************)
(* Properties of the advisor's threads, under SpecAdvisor.                 *)
(***************************************************************************)
InProcessTicker(th) == advisor[th].at \in {"process_ticker", "generate_signals"}

\* C25: the job's update_dashboard and the main thread's initial
\* update_dashboard are never inside process_ticker of the same ticker at the
\* same time, so generate_signals never runs concurrently on the global
\* strategy for one ticker.
C25_SerializedPerTicker ==
    ~ /\ InProcessTicker("main")
      /\ InProcessTicker("job")
      /\ advisor.main.k = advisor.job.k

(***************************************************************************)
(* The skipped rows of the Bollinger Bands loop, under SpecStrategy.       *)
(***************************************************************************)
\* The loop of BBandsStrategy has just read the row at position call.idx - 1,
\* and its band values and RSI are defined
BBPassOnDefinedRow ==
    /\ strategy.kind = "BB"
    /\ call.phase = "loop"
    /\ call.idx > 0
    /\ ~IsNaN(call.prev.bb_lower) /\ ~IsNaN(call.prev.bb_upper)
    /\ ~IsNaN(call.prev.rsi)

\* C26: the Bollinger Bands loop skips a row with defined bands for
\* insufficient history exactly when fewer than bb_length bars exist up to
\* and including it; the row at position bb_length - 1 is evaluated.
C26_SkipsOnlyShortHistory ==
    BBPassOnDefinedRow => (call.outcome = "early" <=> call.idx < BbLength)

(***************************************************************************)
(* The position column against the holdings, under SpecSim.                *)
(***************************************************************************)
\* The rows the cash/holdings loop has gone through
SimulatedRows == {k \in Rows : pc \in {"simulated", "done"} \/ (pc = "loop" /\ k < i)}

\* C27: at every simulated bar the recorded position is 1 exactly when the
\* holdings are positive and 0 exactly when the holdings are 0, whatever the
\* signals (repeated BUYs, a SELL before the first BUY).
C27_PositionMatchesHoldings ==
    \A k \in SimulatedRows :
        /\ At(portfolio.position, k) = ROne <=> RLt(RZero, At(portfolio.holdings, k))
        /\ At(portfolio.position, k) = RZero <=> At(portfolio.holdings, k) = RZero

(***************************************************************************)
(* The record of the last signals over the calls, under SpecCooldown.      *)
(***************************************************************************)
\* C28: over the calls of generate_signals on one instance (cooldown_minutes
\* >= 0) the recorded last signal of a ticker is never dropped and its
\* timestamp never decreases: a step replaces the record of a ticker only by
\* a Signal of that ticker, the one just emitted, at least cooldown_minutes
\* later; the records of the other tickers stay as they are.
C28_RecordMonotone ==
    [][\A tk \in DOMAIN last_signals :
          /\ tk \in DOMAIN last_signals'
          /\ last_signals'[tk].timestamp >= last_signals[tk].timestamp
          /\ last_signals'[tk] # last_signals[tk]
                => /\ Len(signals') = Len(signals) + 1
                   /\ last_signals'[tk] = signals'[Len(signals')]
                   /\ last_signals'[tk].ticker = tk
                   /\ last_signals'[tk].timestamp - last_signals[tk].timestamp
                         >= strategy.cooldown_minutes * SecondsPerMinute]_vars

\* C28 witness: both tickers have a record, and the call at hand has just
\* been refused a row that is earlier than the record of its ticker.
C28_Witness ==
    /\ DOMAIN last_signals = {"AAPL", "MSFT"}
    /\ call.phase = "loop"
    /\ call.outcome = "cooldown"
    /\ call.prev.Datetime < last_signals[call.ticker].timestamp
    /\ \E tk \in DOMAIN last_signals :
          tk # call.ticker /\ last_signals[tk].timestamp > call.prev.Datetime

(***************************************************************************)
(* The list one call returns, under SpecRerun.                             *)
(***************************************************************************)
\* C29: the list a call of generate_signals returns holds at most one
\* Signal per bar (no two of its Signals have the same ticker and
\* timestamp) and is in non-decreasing order of timestamp, for the three
\* strategies and MACD+Stochastic on short series as well.
C29_OneSignalPerBar ==
    \A c \in 1..Len(returned) :
        LET sigs == returned[c].signals
        IN  \A a \in 1..Len(sigs), b \in 1..Len(sigs) :
                a < b => /\ sigs[a].timestamp <= sigs[b].timestamp
                         /\ ~ /\ sigs[a].ticker = sigs[b].ticker
                               /\ sigs[a].timestamp = sigs[b].timestamp

====
